---------------------------- MODULE Spec2Model ----------------------------
(***************************************************************************)
(* Model of DataIntegrityValidator (data_integrity.py): a battery of       *)
(* read-only SQL checks over the tables programs and program_intervals,    *)
(* and the aggregation of their results.                                   *)
(*                                                                         *)
(* The dataset is the state; every validator method is one action that     *)
(* reads the two tables and stores what the call produced in result.       *)
(* The SQL statements are evaluated with PostgreSQL's semantics: columns   *)
(* are nullable, comparisons are three-valued, WHERE keeps the rows whose  *)
(* condition is true, GROUP BY puts nulls in one group.                    *)
(*                                                                         *)
(* Next to the validator: format_validation_report, which renders a        *)
(* results dictionary; DataLoader._validate_time_format (data_loader.py);  *)
(* and the INSERT, UPDATE and DELETE statements a client runs on programs, *)
(* after which the database's trigger rewrites program_intervals.          *)
(*                                                                         *)
(* Further components, each with its own next-state relation:              *)
(* DataLoader.load_csv_to_programs (data_loader.py), the db_connection     *)
(* session fixture and the "database is clean" step (conftest.py,          *)
(* test_tv_intervals.py), the history file of the performance dashboard    *)
(* (update_performance_dashboard.py) and TVProgramDataGenerator            *)
(* (performance_test_generator.py).                                        *)
(***************************************************************************)
EXTENDS Integers, Sequences, FiniteSets, TLC

VARIABLES programs, program_intervals, fault, validation_results, time_str,
          args, history, session, result

vars == <<programs, program_intervals, fault, validation_results, time_str,
          args, history, session, result>>

\* what a call of the validator or of a helper function reads and leaves
\* alone: the two tables, the state of the connection, the arguments and
\* random draws of the call under study, the dashboard's history file and
\* the session fixture
environment == <<programs, program_intervals, fault, validation_results,
                 time_str, args, history, session>>

(***************************************************************************)
(* Nullable column values: NULL is the empty tuple, a value v is <<v>>.    *)
(***************************************************************************)
NULL == <<>>
Val(v) == <<v>>
IsNull(x) == x = NULL
Get(x) == x[1]

(***************************************************************************)
(* SQL three-valued logic: "t" true, "f" false, "u" unknown.               *)
(***************************************************************************)
Bool3(b) == IF b THEN "t" ELSE "f"
Not3(a) == IF a = "u" THEN "u" ELSE IF a = "t" THEN "f" ELSE "t"
And3(a, b) == IF a = "f" \/ b = "f" THEN "f"
              ELSE IF a = "u" \/ b = "u" THEN "u" ELSE "t"
Or3(a, b) == IF a = "t" \/ b = "t" THEN "t"
             ELSE IF a = "u" \/ b = "u" THEN "u" ELSE "f"
IsNull3(x) == Bool3(IsNull(x))
Eq3(x, y) == IF IsNull(x) \/ IsNull(y) THEN "u" ELSE Bool3(Get(x) = Get(y))
Ne3(x, y) == Not3(Eq3(x, y))
Lt3(x, y) == IF IsNull(x) \/ IsNull(y) THEN "u" ELSE Bool3(Get(x) < Get(y))
Gt3(x, y) == Lt3(y, x)

(***************************************************************************)
(* Relational helpers.  Rows come back in table order.                     *)
(***************************************************************************)
RECURSIVE Flatten(_)
Flatten(ss) == IF ss = <<>> THEN <<>> ELSE Head(ss) \o Flatten(Tail(ss))

Map(s, F(_)) == [i \in 1..Len(s) |-> F(s[i])]

\* SELECT ... FROM ... WHERE cond: the rows whose condition is true
Where(rows, Cond(_)) == SelectSeq(rows, LAMBDA r : Cond(r) = "t")

\* L JOIN R ON cond: every pair <<l, r>> whose ON condition is true
InnerJoin(L, R, On(_, _)) ==
    Flatten([i \in 1..Len(L) |->
        Map(SelectSeq(R, LAMBDA r : On(L[i], r) = "t"), LAMBDA r : <<L[i], r>>)])

\* L LEFT JOIN R ON cond: as JOIN, and a row of L without partner is paired
\* with an all-null row of R
LeftJoin(L, R, On(_, _), nullRow) ==
    Flatten([i \in 1..Len(L) |->
        LET m == SelectSeq(R, LAMBDA r : On(L[i], r) = "t")
        IN  IF m = <<>> THEN << <<L[i], nullRow>> >>
            ELSE Map(m, LAMBDA r : <<L[i], r>>)])

NullProgram == [id |-> NULL, program_name |-> NULL,
                start_time |-> NULL, end_time |-> NULL]
NullInterval == [program_name |-> NULL, interval_count |-> NULL]

(***************************************************************************)
(* What a call produced: a returned value, or an exception raised by       *)
(* cursor.execute that the validator does not catch.                       *)
(***************************************************************************)
Returned(op, v) == [op |-> op, raised |-> FALSE, value |-> v]
Raised(op, e) == [op |-> op, raised |-> TRUE, value |-> e]
NoCall == [op |-> "none", raised |-> FALSE, value |-> <<>>, issued |-> <<>>]

\* no call is being studied: no arguments; the session fixture not set up
NoArgs == <<>>
NoSession == [pc |-> "setup", attempt |-> 0, connection |-> NULL,
              trace |-> <<>>]

(***************************************************************************)
(* cursor.execute.  A call issues its statements one after the other on    *)
(* the connection (autocommit).  An execute fails when the connection      *)
(* fails under it, or when PostgreSQL rejects the statement; the validator *)
(* has no try/except, so the exception leaves the call at that statement.  *)
(***************************************************************************)
\* The statement of the first query, as far as its analysis goes:
\*   SELECT program_name, start_time, end_time, CASE ... END as duration_minutes
\*   FROM programs HAVING duration_minutes > 1440
\* It has a HAVING clause, no GROUP BY and no aggregate.
LongProgramsStatement ==
    [select_columns |-> {"program_name", "start_time", "end_time"},
     select_aliases |-> {"duration_minutes"},
     group_by |-> {},
     having_columns |-> {"duration_minutes"},
     has_having |-> TRUE]

\* PostgreSQL's analysis of a statement: HAVING makes the query a grouped
\* one, so every column named outside an aggregate, in the select list or in
\* HAVING, must be a grouping column; a select-list alias is not visible in
\* HAVING.  A statement that fails the analysis is rejected before any row is
\* read, and cursor.execute raises.
StatementAccepted(stmt) ==
    stmt.has_having =>
        /\ stmt.having_columns \subseteq stmt.group_by
        /\ stmt.select_columns \subseteq stmt.group_by

\* the statements of each check, by the name of the list they fill
ReferentialStatements == <<"orphaned_intervals", "missing_intervals">>
TimeStatements == <<"invalid_times", "overlapping_programs",
                    "negative_durations">>
CalculationStatements == <<"incorrect_calculations">>
QualityStatements == <<"duplicate_names", "empty_names", "long_names",
                       "zero_duration">>
BusinessStatements == <<"long_programs", "suspicious_names",
                        "non_standard_times">>
ComprehensiveStatements ==
    ReferentialStatements \o TimeStatements \o CalculationStatements
        \o QualityStatements \o BusinessStatements

Rejected(name) ==
    name = "long_programs" /\ ~StatementAccepted(LongProgramsStatement)

\* fault = k: the connection fails under the k-th execute of a call;
\* fault = 0: it does not fail.  The first execute of stmts that fails, or 0
FirstFailure(stmts) ==
    LET failing == {k \in 1..Len(stmts) : fault = k \/ Rejected(stmts[k])}
    IN  IF failing = {} THEN 0
        ELSE CHOOSE k \in failing : \A m \in failing : k <= m

\* mutant: a failed execute is issued once more before the call gives up
Issue_Retry(stmts, r) ==
    LET k == FirstFailure(stmts)
    IN  IF k = 0
        THEN [op |-> r.op, raised |-> FALSE, value |-> r.value,
              issued |-> stmts]
        ELSE [op |-> r.op, raised |-> TRUE,
              value |-> IF fault = k THEN "OperationalError"
                        ELSE "ProgrammingError",
              issued |-> Append(SubSeq(stmts, 1, k), stmts[k])]

\* a call that issues stmts and, when every execute succeeds, ends as r
Issue(stmts, r) ==
    LET k == FirstFailure(stmts)
    IN  IF k = 0
        THEN [op |-> r.op, raised |-> FALSE, value |-> r.value,
              issued |-> stmts]
        ELSE [op |-> r.op, raised |-> TRUE,
              value |-> IF fault = k THEN "OperationalError"
                        ELSE "ProgrammingError",
              issued |-> SubSeq(stmts, 1, k)]

Found(n, what) == "Found " \o ToString(n) \o what

(***************************************************************************)
(* validate_referential_integrity                                          *)
(***************************************************************************)
NameMatch(x, y) == Eq3(x.program_name, y.program_name)

\* mutant: JOIN instead of LEFT JOIN, rows without partner are dropped
OrphanedQuery_InnerJoin(P, I) ==
    Map(Where(InnerJoin(I, P, NameMatch),
              LAMBDA j : IsNull3(j[2].program_name)),
        LAMBDA j : j[1].program_name)

\* SELECT pi.program_name FROM program_intervals pi LEFT JOIN programs p
\*   ON pi.program_name = p.program_name WHERE p.program_name IS NULL
OrphanedQuery(P, I) ==
    Map(Where(LeftJoin(I, P, NameMatch, NullProgram),
              LAMBDA j : IsNull3(j[2].program_name)),
        LAMBDA j : j[1].program_name)

\* mutant: the WHERE clause is left out
MissingQuery_NoWhere(P, I) ==
    Map(LeftJoin(P, I, NameMatch, NullInterval), LAMBDA j : j[1].program_name)

\* SELECT p.program_name FROM programs p LEFT JOIN program_intervals pi
\*   ON p.program_name = pi.program_name WHERE pi.program_name IS NULL
MissingQuery(P, I) ==
    Map(Where(LeftJoin(P, I, NameMatch, NullInterval),
              LAMBDA j : IsNull3(j[2].program_name)),
        LAMBDA j : j[1].program_name)

validate_referential_integrity(P, I) ==
    LET orphaned == OrphanedQuery(P, I)
        missing == MissingQuery(P, I)
        r0 == [is_valid |-> TRUE, errors |-> <<>>,
               orphaned_intervals |-> <<>>, missing_intervals |-> <<>>]
        r1 == IF orphaned # <<>>
              THEN [r0 EXCEPT !.is_valid = FALSE,
                              !.orphaned_intervals = orphaned,
                              !.errors = Append(@, Found(Len(orphaned),
                                             " orphaned interval records"))]
              ELSE r0
        r2 == IF missing # <<>>
              THEN [r1 EXCEPT !.is_valid = FALSE,
                              !.missing_intervals = missing,
                              !.errors = Append(@, Found(Len(missing),
                                     " programs without interval records"))]
              ELSE r1
    IN  r2

\* mutant: the check repairs what it finds, deleting the orphaned rows
ValidateReferentialIntegrity_Repairing ==
    /\ result' = Issue(ReferentialStatements,
                     Returned("validate_referential_integrity",
                       validate_referential_integrity(programs, program_intervals)))
    /\ program_intervals' =
           SelectSeq(program_intervals, LAMBDA pi :
               \E i \in DOMAIN programs : NameMatch(pi, programs[i]) = "t")
    /\ UNCHANGED <<programs, fault, validation_results, time_str, args, history, session>>

ValidateReferentialIntegrity ==
    /\ result' = Issue(ReferentialStatements,
                     Returned("validate_referential_integrity",
                       validate_referential_integrity(programs, program_intervals)))
    /\ UNCHANGED environment

(***************************************************************************)
(* validate_time_constraints                                               *)
(***************************************************************************)
Noon == 720   \* '12:00' as minutes after midnight

\* start_time::text = '': the text of a time is never empty, of NULL is NULL
TextIsEmpty3(t) == IF IsNull(t) THEN "u" ELSE "f"

TimesOf(p) == [program_name |-> p.program_name,
               start_time |-> p.start_time, end_time |-> p.end_time]

\* WHERE start_time IS NULL OR end_time IS NULL
\*    OR start_time::text = '' OR end_time::text = ''
InvalidTimesQuery(P) ==
    Map(Where(P, LAMBDA p :
            Or3(IsNull3(p.start_time),
            Or3(IsNull3(p.end_time),
            Or3(TextIsEmpty3(p.start_time), TextIsEmpty3(p.end_time))))),
        TimesOf)

Wraps3(p) == Gt3(p.start_time, p.end_time)

Le3(x, y) == Not3(Gt3(x, y))
Ge3(x, y) == Not3(Lt3(x, y))

\* mutant: <= and >= in place of < and >
OverlapCond_NonStrict(j) ==
    And3(Le3(j[1].start_time, j[2].end_time),
    And3(Ge3(j[1].end_time, j[2].start_time),
         Not3(Or3(Wraps3(j[1]), Wraps3(j[2])))))

\* mutant: without the exclusion of programs that wrap past midnight
OverlapCond_NoExclusion(j) ==
    And3(Lt3(j[1].start_time, j[2].end_time),
         Gt3(j[1].end_time, j[2].start_time))

\* WHERE p1.start_time < p2.end_time AND p1.end_time > p2.start_time
\*   AND NOT (p1.start_time > p1.end_time OR p2.start_time > p2.end_time)
OverlapCond(j) ==
    And3(Lt3(j[1].start_time, j[2].end_time),
    And3(Gt3(j[1].end_time, j[2].start_time),
         Not3(Or3(Wraps3(j[1]), Wraps3(j[2])))))

\* FROM programs p1 JOIN programs p2 ON p1.id < p2.id WHERE ...
OverlappingQuery(P) ==
    Map(Where(InnerJoin(P, P, LAMBDA p1, p2 : Lt3(p1.id, p2.id)), OverlapCond),
        LAMBDA j : [program1 |-> j[1].program_name,
                    program2 |-> j[2].program_name,
                    start1 |-> j[1].start_time, end1 |-> j[1].end_time,
                    start2 |-> j[2].start_time, end2 |-> j[2].end_time])

\* mutant: noon itself counts as after noon
NegativeCond_NoonInclusive(p) ==
    And3(Gt3(p.start_time, p.end_time),
         Not3(And3(Ge3(p.start_time, Val(Noon)), Lt3(p.end_time, Val(Noon)))))

\* WHERE start_time > end_time
\*   AND NOT (start_time > '12:00' AND end_time < '12:00')
NegativeCond(p) ==
    And3(Gt3(p.start_time, p.end_time),
         Not3(And3(Gt3(p.start_time, Val(Noon)), Lt3(p.end_time, Val(Noon)))))

NegativeDurationsQuery(P) == Map(Where(P, NegativeCond), TimesOf)

validate_time_constraints(P) ==
    LET invalid_times == InvalidTimesQuery(P)
        overlapping == OverlappingQuery(P)
        negative == NegativeDurationsQuery(P)
        r0 == [is_valid |-> TRUE, errors |-> <<>>, invalid_times |-> <<>>,
               overlapping_programs |-> <<>>, negative_durations |-> <<>>]
        r1 == IF invalid_times # <<>>
              THEN [r0 EXCEPT !.is_valid = FALSE,
                              !.invalid_times = invalid_times,
                              !.errors = Append(@, Found(Len(invalid_times),
                                      " programs with invalid time values"))]
              ELSE r0
        r2 == IF overlapping # <<>>
              THEN [r1 EXCEPT !.is_valid = FALSE,
                              !.overlapping_programs = overlapping,
                              !.errors = Append(@, Found(Len(overlapping),
                                      " overlapping program pairs"))]
              ELSE r1
        r3 == IF negative # <<>>
              THEN [r2 EXCEPT !.is_valid = FALSE,
                              !.negative_durations = negative,
                              !.errors = Append(@, Found(Len(negative),
                                      " programs with negative durations"))]
              ELSE r2
    IN  r3

ValidateTimeConstraints ==
    /\ result' = Issue(TimeStatements,
                     Returned("validate_time_constraints",
                              validate_time_constraints(programs)))
    /\ UNCHANGED environment

(***************************************************************************)
(* validate_interval_calculations                                          *)
(***************************************************************************)
\* The stored function count_15min_intervals(start, end) is defined in the
\* database schema: the number of 15-minute slots of the duration, where
\* end < start wraps past midnight.
DayMinutes == 1440
SlotMinutes == 15

count_15min_intervals(s, e) ==
    IF IsNull(s) \/ IsNull(e) THEN NULL
    ELSE LET d == IF Get(e) < Get(s) THEN DayMinutes - Get(s) + Get(e)
                  ELSE Get(e) - Get(s)
         IN  Val((d + SlotMinutes - 1) \div SlotMinutes)

\* mutant: every joined row is reported, the WHERE clause is left out
IncorrectCalculationsQuery_NoWhere(P, I) ==
    Map(InnerJoin(P, I, NameMatch),
        LAMBDA j : [program_name |-> j[1].program_name,
                    start_time |-> j[1].start_time,
                    end_time |-> j[1].end_time,
                    stored_count |-> j[2].interval_count,
                    calculated_count |->
                      count_15min_intervals(j[1].start_time, j[1].end_time)])

\* FROM programs p JOIN program_intervals pi
\*   ON p.program_name = pi.program_name
\* WHERE pi.interval_count != count_15min_intervals(p.start_time, p.end_time)
IncorrectCalculationsQuery(P, I) ==
    Map(Where(InnerJoin(P, I, NameMatch),
              LAMBDA j : Ne3(j[2].interval_count,
                   count_15min_intervals(j[1].start_time, j[1].end_time))),
        LAMBDA j : [program_name |-> j[1].program_name,
                    start_time |-> j[1].start_time,
                    end_time |-> j[1].end_time,
                    stored_count |-> j[2].interval_count,
                    calculated_count |->
                      count_15min_intervals(j[1].start_time, j[1].end_time)])

validate_interval_calculations(P, I) ==
    LET incorrect == IncorrectCalculationsQuery(P, I)
        r0 == [is_valid |-> TRUE, errors |-> <<>>,
               incorrect_calculations |-> <<>>]
    IN  IF incorrect # <<>>
        THEN [r0 EXCEPT !.is_valid = FALSE,
                        !.incorrect_calculations = incorrect,
                        !.errors = Append(@, Found(Len(incorrect),
                          " programs with incorrect interval calculations"))]
        ELSE r0

ValidateIntervalCalculations ==
    /\ result' = Issue(CalculationStatements,
                     Returned("validate_interval_calculations",
                       validate_interval_calculations(programs, program_intervals)))
    /\ UNCHANGED environment

(***************************************************************************)
(* validate_data_quality                                                   *)
(* A program name is a sequence of characters.                             *)
(***************************************************************************)
MaxNameLength == 255

RECURSIVE LTrim(_)
LTrim(s) == IF s # <<>> /\ Head(s) = " " THEN LTrim(Tail(s)) ELSE s

RECURSIVE RTrim(_)
RTrim(s) == IF s # <<>> /\ s[Len(s)] = " "
            THEN RTrim(SubSeq(s, 1, Len(s) - 1)) ELSE s

\* TRIM(program_name), LENGTH(program_name)
Trim(x) == IF IsNull(x) THEN NULL ELSE Val(LTrim(RTrim(Get(x))))
Length(x) == IF IsNull(x) THEN NULL ELSE Val(Len(Get(x)))

RECURSIVE DistinctValues(_)
DistinctValues(s) ==
    IF s = <<>> THEN <<>>
    ELSE <<Head(s)>> \o DistinctValues(SelectSeq(Tail(s), LAMBDA v : v # Head(s)))

\* mutant: without the HAVING clause, every group is returned
DuplicateNamesQuery_NoHaving(P) ==
    LET names == Map(P, LAMBDA p : p.program_name)
    IN  Map(DistinctValues(names), LAMBDA n :
            [program_name |-> n,
             count |-> Len(SelectSeq(names, LAMBDA m : m = n))])

\* SELECT program_name, COUNT(*) as count FROM programs
\* GROUP BY program_name HAVING COUNT(*) > 1   (nulls form one group)
DuplicateNamesQuery(P) ==
    LET names == Map(P, LAMBDA p : p.program_name)
        groups == Map(DistinctValues(names), LAMBDA n :
                      [program_name |-> n,
                       count |-> Len(SelectSeq(names, LAMBDA m : m = n))])
    IN  SelectSeq(groups, LAMBDA g : g.count > 1)

\* WHERE program_name IS NULL OR TRIM(program_name) = ''
\*    OR LENGTH(program_name) = 0
EmptyNamesQuery(P) ==
    Map(Where(P, LAMBDA p :
            Or3(IsNull3(p.program_name),
            Or3(Eq3(Trim(p.program_name), Val(<<>>)),
                Eq3(Length(p.program_name), Val(0))))),
        TimesOf)

\* WHERE LENGTH(program_name) > 255
LongNamesQuery(P) ==
    Map(Where(P, LAMBDA p : Gt3(Length(p.program_name), Val(MaxNameLength))),
        LAMBDA p : [program_name |-> p.program_name,
                    name_length |-> Length(p.program_name)])

\* WHERE start_time = end_time
ZeroDurationQuery(P) ==
    Map(Where(P, LAMBDA p : Eq3(p.start_time, p.end_time)), TimesOf)

\* mutant: zero-duration programs make the check invalid
ReportZeroDuration_Blocking(r, zero_duration) ==
    IF zero_duration # <<>>
    THEN [r EXCEPT !.is_valid = FALSE,
                   !.zero_duration = zero_duration,
                   !.errors = Append(@, Found(Len(zero_duration),
                                " zero-duration programs (may be valid)"))]
    ELSE r

\* "This might be valid business case, so just report it": is_valid is left
\* alone, the list is stored and the message is appended to errors
ReportZeroDuration(r, zero_duration) ==
    IF zero_duration # <<>>
    THEN [r EXCEPT !.zero_duration = zero_duration,
                   !.errors = Append(@, Found(Len(zero_duration),
                                " zero-duration programs (may be valid)"))]
    ELSE r

validate_data_quality(P) ==
    LET duplicates == DuplicateNamesQuery(P)
        empty_names == EmptyNamesQuery(P)
        long_names == LongNamesQuery(P)
        zero_duration == ZeroDurationQuery(P)
        r0 == [is_valid |-> TRUE, errors |-> <<>>, duplicate_names |-> <<>>,
               empty_names |-> <<>>, long_names |-> <<>>,
               zero_duration |-> <<>>]
        r1 == IF duplicates # <<>>
              THEN [r0 EXCEPT !.is_valid = FALSE,
                              !.duplicate_names = duplicates,
                              !.errors = Append(@, Found(Len(duplicates),
                                      " duplicate program names"))]
              ELSE r0
        r2 == IF empty_names # <<>>
              THEN [r1 EXCEPT !.is_valid = FALSE,
                              !.empty_names = empty_names,
                              !.errors = Append(@, Found(Len(empty_names),
                                      " programs with empty names"))]
              ELSE r1
        r3 == IF long_names # <<>>
              THEN [r2 EXCEPT !.is_valid = FALSE,
                              !.long_names = long_names,
                              !.errors = Append(@, Found(Len(long_names),
                                " programs with names exceeding 255 characters"))]
              ELSE r2
    IN  ReportZeroDuration(r3, zero_duration)

ValidateDataQuality ==
    /\ result' = Issue(QualityStatements,
                     Returned("validate_data_quality",
                              validate_data_quality(programs)))
    /\ UNCHANGED environment

(***************************************************************************)
(* validate_business_rules                                                 *)
(***************************************************************************)
\* CASE WHEN end_time < start_time
\*      THEN EXTRACT(EPOCH FROM (TIME '24:00:00' - start_time)) / 60
\*           + EXTRACT(EPOCH FROM end_time) / 60
\*      ELSE EXTRACT(EPOCH FROM (end_time - start_time)) / 60 END
duration_minutes(p) ==
    IF IsNull(p.start_time) \/ IsNull(p.end_time) THEN NULL
    ELSE IF Get(p.end_time) < Get(p.start_time)
         THEN Val((DayMinutes - Get(p.start_time)) + Get(p.end_time))
         ELSE Val(Get(p.end_time) - Get(p.start_time))

LongProgramsQuery(P) ==
    IF StatementAccepted(LongProgramsStatement)
    THEN [raised |-> FALSE,
          rows |-> Map(Where(P, LAMBDA p : Gt3(duration_minutes(p), Val(DayMinutes))),
                       LAMBDA p : [program_name |-> p.program_name,
                                   start_time |-> p.start_time,
                                   end_time |-> p.end_time,
                                   duration_minutes |-> duration_minutes(p)])]
    ELSE [raised |-> TRUE, rows |-> <<>>]

\* ILIKE: the comparison ignores case
LowerChar(c) ==
    CASE c = "D" -> "d" [] c = "R" -> "r" [] c = "O" -> "o" [] c = "P" -> "p"
      [] c = "S" -> "s" [] c = "E" -> "e" [] c = "L" -> "l" [] c = "C" -> "c"
      [] c = "T" -> "t" [] c = "I" -> "i" [] c = "N" -> "n" [] c = "U" -> "u"
      [] c = "A" -> "a" [] OTHER -> c

Lower(s) == [i \in 1..Len(s) |-> LowerChar(s[i])]

\* s ILIKE '%k%'
Contains(s, k) ==
    \E i \in 1..(Len(s) - Len(k) + 1) : SubSeq(s, i, i + Len(k) - 1) = k

SuspiciousKeywords ==
    { <<"d","r","o","p">>, <<"d","e","l","e","t","e">>,
      <<"i","n","s","e","r","t">>, <<"u","p","d","a","t","e">>,
      <<"s","e","l","e","c","t">>, <<"-","-">>, <<";">>,
      <<"s","c","r","i","p","t">> }

\* WHERE program_name ILIKE ANY(ARRAY['%drop%', ..., '%script%'])
SuspiciousNamesQuery(P) ==
    Map(Where(P, LAMBDA p :
            IF IsNull(p.program_name) THEN "u"
            ELSE Bool3(\E k \in SuspiciousKeywords :
                           Contains(Lower(Get(p.program_name)), k))),
        LAMBDA p : p.program_name)

\* EXTRACT(MINUTE FROM t) NOT IN (0, 15, 30, 45)
MinuteNotStandard3(t) ==
    IF IsNull(t) THEN "u" ELSE Bool3((Get(t) % 60) \notin {0, 15, 30, 45})

NonStandardTimesQuery(P) ==
    Map(Where(P, LAMBDA p : Or3(MinuteNotStandard3(p.start_time),
                                MinuteNotStandard3(p.end_time))),
        TimesOf)

validate_business_rules(P) ==
    LET q == LongProgramsQuery(P)
        long_programs == q.rows
        suspicious_names == SuspiciousNamesQuery(P)
        non_standard_times == NonStandardTimesQuery(P)
        r0 == [is_valid |-> TRUE, errors |-> <<>>, warnings |-> <<>>,
               suspicious_patterns |-> <<>>]
        r1 == IF long_programs # <<>>
              THEN [r0 EXCEPT !.is_valid = FALSE,
                              !.errors = Append(@, Found(Len(long_programs),
                                      " programs longer than 24 hours")),
                              !.suspicious_patterns = @ \o long_programs]
              ELSE r0
        r2 == IF suspicious_names # <<>>
              THEN [r1 EXCEPT !.warnings = Append(@, Found(Len(suspicious_names),
                                      " programs with suspicious names")),
                              !.suspicious_patterns = @ \o suspicious_names]
              ELSE r1
        r3 == IF non_standard_times # <<>>
              THEN [r2 EXCEPT !.warnings = Append(@, Found(Len(non_standard_times),
                                      " programs with non-standard time slots"))]
              ELSE r2
    IN  IF q.raised
        THEN Raised("validate_business_rules", "ProgrammingError")
        ELSE Returned("validate_business_rules", r3)

ValidateBusinessRules ==
    /\ result' = Issue(BusinessStatements, validate_business_rules(programs))
    /\ UNCHANGED environment

(***************************************************************************)
(* run_comprehensive_validation                                            *)
(***************************************************************************)
\* the keys of all_results that hold a check's record, in dict order
CheckNames == <<"referential_integrity", "time_constraints",
                "interval_calculations", "data_quality", "business_rules">>

\* check_results.get(key, [])
GetList(r, key) == IF key \in DOMAIN r THEN r[key] ELSE <<>>

\* the "Calculate summary" loop, up to and including the k-th check
RECURSIVE Summarize(_, _)
Summarize(all, k) ==
    IF k = 0 THEN all
    ELSE LET a == Summarize(all, k - 1)
             check_results == a[CheckNames[k]]
             s1 == [a.summary EXCEPT !.checks_performed = @ + 1]
             s2 == IF ~check_results.is_valid
                   THEN [s1 EXCEPT !.total_errors =
                              @ + Len(GetList(check_results, "errors"))]
                   ELSE s1
             s3 == [s2 EXCEPT !.total_warnings =
                              @ + Len(GetList(check_results, "warnings"))]
         IN  [a EXCEPT !.overall_valid = IF ~check_results.is_valid
                                         THEN FALSE ELSE @,
                       !.summary = s3]

run_comprehensive_validation(P, I) ==
    LET business == validate_business_rules(P)
        all_results ==
            [overall_valid |-> TRUE,
             summary |-> [total_errors |-> 0, total_warnings |-> 0,
                          checks_performed |-> 0],
             referential_integrity |-> validate_referential_integrity(P, I),
             time_constraints |-> validate_time_constraints(P),
             interval_calculations |-> validate_interval_calculations(P, I),
             data_quality |-> validate_data_quality(P),
             business_rules |-> business.value]
    IN  IF business.raised
        THEN Raised("run_comprehensive_validation", business.value)
        ELSE Returned("run_comprehensive_validation",
                      Summarize(all_results, Len(CheckNames)))

RunComprehensiveValidation ==
    /\ result' = Issue(ComprehensiveStatements,
                     run_comprehensive_validation(programs, program_intervals))
    /\ UNCHANGED environment

(***************************************************************************)
(* format_validation_report                                                *)
(***************************************************************************)
\* validation_results is a dict: its items in insertion order, each a pair
\* <<key, value>>
DictHas(d, key) == \E i \in DOMAIN d : d[i][1] = key
DictAt(d, key) == d[CHOOSE i \in DOMAIN d : d[i][1] = key][2]
DictGet(d, key, default) == IF DictHas(d, key) THEN DictAt(d, key) ELSE default

\* the text of a key, character by character
Chars(name) ==
    CASE name = "referential_integrity" ->
          <<"r", "e", "f", "e", "r", "e", "n", "t", "i", "a", "l", "_", "i",
          "n", "t", "e", "g", "r", "i", "t", "y">>
      [] name = "time_constraints" ->
          <<"t", "i", "m", "e", "_", "c", "o", "n", "s", "t", "r", "a", "i",
          "n", "t", "s">>
      [] name = "interval_calculations" ->
          <<"i", "n", "t", "e", "r", "v", "a", "l", "_", "c", "a", "l", "c",
          "u", "l", "a", "t", "i", "o", "n", "s">>
      [] name = "data_quality" ->
          <<"d", "a", "t", "a", "_", "q", "u", "a", "l", "i", "t", "y">>
      [] name = "business_rules" ->
          <<"b", "u", "s", "i", "n", "e", "s", "s", "_", "r", "u", "l", "e",
          "s">>

LowerLetters == <<"a", "b", "c", "d", "e", "f", "g", "h", "i", "j", "k", "l", "m", "n", "o", "p", "q", "r", "s", "t", "u", "v", "w", "x", "y", "z">>
UpperLetters == <<"A", "B", "C", "D", "E", "F", "G", "H", "I", "J", "K", "L", "M", "N", "O", "P", "Q", "R", "S", "T", "U", "V", "W", "X", "Y", "Z">>

\* str.upper() and str.replace('_', ' '), on one character
UpperChar(c) ==
    IF \E i \in DOMAIN LowerLetters : LowerLetters[i] = c
    THEN UpperLetters[CHOOSE i \in DOMAIN LowerLetters : LowerLetters[i] = c]
    ELSE c
UnderscoreToSpace(c) == IF c = "_" THEN " " ELSE c

RECURSIVE ToStr(_)
ToStr(cs) == IF cs = <<>> THEN "" ELSE Head(cs) \o ToStr(Tail(cs))

\* f"{check_name.upper().replace('_', ' ')}:"
SectionTitle(check_name) ==
    ToStr([i \in DOMAIN Chars(check_name) |->
              UnderscoreToSpace(UpperChar(Chars(check_name)[i]))]) \o ":"

\* mutant: every status reads PASS
StatusWord_AlwaysPass(ok) == "PASS"

\* 'PASS' if ... else 'FAIL'
StatusWord(ok) == IF ok THEN "PASS" ELSE "FAIL"

Rule == "============================================================"

\* mutant: the sections in alphabetical order of the keys
checks_Alphabetical ==
    <<"business_rules", "data_quality", "interval_calculations",
      "referential_integrity", "time_constraints">>

checks == <<"referential_integrity", "time_constraints",
            "interval_calculations", "data_quality", "business_rules">>

\* the title of each section, in the order of checks
SectionTitles == [k \in DOMAIN checks |-> SectionTitle(checks[k])]

\* for error in errors: report.append(f"    - {error}")
Items(messages) == [i \in DOMAIN messages |-> "    - " \o messages[i]]

\* the lines of the k-th section; validation_results.get(check_name, {})
\* is the empty dict <<>> when the key is missing
Section(d, k) ==
    LET check_results == DictGet(d, checks[k], <<>>)
        is_valid == IF "is_valid" \in DOMAIN check_results
                    THEN check_results.is_valid ELSE TRUE
        errors == GetList(check_results, "errors")
        warnings == GetList(check_results, "warnings")
    IN  <<SectionTitles[k], "  Status: " \o StatusWord(is_valid)>>
        \o (IF errors # <<>> THEN <<"  Errors:">> \o Items(errors) ELSE <<>>)
        \o (IF warnings # <<>> THEN <<"  Warnings:">> \o Items(warnings)
            ELSE <<>>)
        \o <<"">>

\* the report line by line; the returned text is the lines joined by "\n"
format_validation_report(d) ==
    LET summary == DictAt(d, "summary")
        overall_valid == DictAt(d, "overall_valid")
    IN  <<Rule, "DATA INTEGRITY VALIDATION REPORT", Rule,
          "Overall Status: " \o StatusWord(overall_valid),
          "Checks Performed: " \o ToString(summary.checks_performed),
          "Total Errors: " \o ToString(summary.total_errors),
          "Total Warnings: " \o ToString(summary.total_warnings),
          "">>
        \o Flatten([k \in DOMAIN checks |-> Section(d, k)])
        \o <<Rule>>

FormatValidationReport ==
    /\ result' = [op |-> "format_validation_report", raised |-> FALSE,
                  value |-> format_validation_report(validation_results),
                  issued |-> <<>>]
    /\ UNCHANGED environment

\* a comprehensive result without any check record
EmptyResults ==
    << <<"overall_valid", TRUE>>,
       <<"summary", [total_errors |-> 0, total_warnings |-> 0,
                     checks_performed |-> 0]>> >>

(***************************************************************************)
(* DataLoader._validate_time_format                                        *)
(* time_str is None (NULL) or a str, character by character.               *)
(***************************************************************************)
Digits == <<"0", "1", "2", "3", "4", "5", "6", "7", "8", "9">>
IsDigit(c) == \E i \in DOMAIN Digits : Digits[i] = c
DigitValue(c) == (CHOOSE i \in DOMAIN Digits : Digits[i] = c) - 1

\* str.split(':')
RECURSIVE Split(_, _)
Split(cs, sep) ==
    IF \E i \in DOMAIN cs : cs[i] = sep
    THEN LET i == CHOOSE n \in DOMAIN cs :
                      cs[n] = sep /\ \A m \in 1..(n - 1) : cs[m] # sep
         IN  <<SubSeq(cs, 1, i - 1)>> \o Split(SubSeq(cs, i + 1, Len(cs)), sep)
    ELSE <<cs>>

RECURSIVE DigitsValue(_)
DigitsValue(ds) ==
    IF ds = <<>> THEN 0
    ELSE 10 * DigitsValue(SubSeq(ds, 1, Len(ds) - 1)) + DigitValue(ds[Len(ds)])

\* int(text): surrounding blanks and one sign are accepted, then digits
\* only; NULL stands for ValueError
ParseInt(text) ==
    LET t == LTrim(RTrim(text))
        signed == t # <<>> /\ t[1] \in {"-", "+"}
        ds == IF signed THEN Tail(t) ELSE t
    IN  IF ds = <<>> \/ \E i \in DOMAIN ds : ~IsDigit(ds[i]) THEN NULL
        ELSE IF signed /\ t[1] = "-" THEN Val(0 - DigitsValue(ds))
        ELSE Val(DigitsValue(ds))

\* f"{minutes:02d}"
TwoDigits(n) == IF 0 <= n /\ n < 10 THEN "0" \o ToString(n) ELSE ToString(n)

validate_time_format(t, field_name) ==
    IF IsNull(t) \/ Get(t) = <<>> \/ Lower(Get(t)) = <<"n", "u", "l", "l">>
    THEN <<field_name \o " contains NULL or empty value">>
    ELSE IF ~\E i \in DOMAIN Get(t) : Get(t)[i] = ":"
    THEN <<field_name \o " missing colon separator: " \o ToStr(Get(t))>>
    ELSE LET parts == Split(Get(t), ":")
             hours == ParseInt(parts[1])
             minutes == ParseInt(parts[2])
         IN  IF Len(parts) < 2
             THEN <<field_name \o " invalid format: " \o ToStr(Get(t))>>
             ELSE IF IsNull(hours) \/ IsNull(minutes)
             THEN <<field_name \o " contains non-numeric values: "
                       \o ToStr(Get(t))>>
             ELSE (IF Get(hours) < 0 \/ Get(hours) > 24
                   THEN <<field_name \o " hour out of range (0-24): "
                             \o ToString(Get(hours))>>
                   ELSE <<>>)
               \o (IF Get(minutes) < 0 \/ Get(minutes) > 59
                   THEN <<field_name \o " minute out of range (0-59): "
                             \o ToString(Get(minutes))>>
                   ELSE <<>>)
               \o (IF Get(hours) = 24 /\ Get(minutes) # 0
                   THEN <<field_name \o " invalid time 24:"
                             \o TwoDigits(Get(minutes))
                             \o ", only 24:00 is valid">>
                   ELSE <<>>)

ValidateTimeFormat ==
    /\ \E field_name \in {"start_time", "end_time"} :
           result' = [op |-> "_validate_time_format", raised |-> FALSE,
                      value |-> validate_time_format(time_str, field_name),
                      issued |-> <<>>]
    /\ UNCHANGED environment

(***************************************************************************)
(* Writes to programs, as the test steps issue them, and the trigger of    *)
(* the schema that keeps program_intervals in step with programs.          *)
(***************************************************************************)
IntervalRow(p) ==
    [program_name |-> p.program_name,
     interval_count |-> count_15min_intervals(p.start_time, p.end_time)]

\* the trigger, after a row new is inserted into programs
IntervalsAfterInsert(I, new) == Append(I, IntervalRow(new))

\* mutant: the trigger recalculates the count and leaves the name as it was
IntervalsAfterUpdate_KeepsName(I, old, new) ==
    [j \in DOMAIN I |->
        IF I[j].program_name = old.program_name
        THEN [IntervalRow(new) EXCEPT !.program_name = old.program_name]
        ELSE I[j]]

\* the trigger, after a row of programs is changed from old to new
IntervalsAfterUpdate(I, old, new) ==
    [j \in DOMAIN I |->
        IF I[j].program_name = old.program_name THEN IntervalRow(new) ELSE I[j]]

\* the trigger, after a row old is deleted from programs
IntervalsAfterDelete(I, old) ==
    SelectSeq(I, LAMBDA pi : pi.program_name # old.program_name)

\* the trigger fired for each of the rows 1..k that a statement changed
\* from P[k] to Q[k]
RECURSIVE AfterUpdates(_, _, _, _)
AfterUpdates(I, P, Q, k) ==
    IF k = 0 THEN I
    ELSE LET J == AfterUpdates(I, P, Q, k - 1)
         IN  IF P[k] # Q[k] THEN IntervalsAfterUpdate(J, P[k], Q[k]) ELSE J

RECURSIVE AfterDeletes(_, _, _)
AfterDeletes(I, D, k) ==
    IF k = 0 THEN I ELSE IntervalsAfterDelete(AfterDeletes(I, D, k - 1), D[k])

\* programs.id is a serial key
NextId ==
    1 + (IF programs = <<>> THEN 0
         ELSE Get(programs[Len(programs)].id))

MaxProgramId == 3

DbNames == {Val(<<"a">>), Val(<<"b">>), Val(<<"c">>)}
DbTimes == {<<Val(540), Val(630)>>, <<Val(1380), Val(60)>>,
            <<Val(540), Val(550)>>}

NameInUse(n) == \E i \in DOMAIN programs : programs[i].program_name = n

\* INSERT INTO programs (program_name, start_time, end_time) VALUES (...)
InsertProgram ==
    \E n \in DbNames, t \in DbTimes :
        /\ NextId <= MaxProgramId
        /\ ~NameInUse(n)
        /\ LET new == [id |-> Val(NextId), program_name |-> n,
                       start_time |-> t[1], end_time |-> t[2]]
           IN  /\ programs' = Append(programs, new)
               /\ program_intervals' =
                      IntervalsAfterInsert(program_intervals, new)
        /\ UNCHANGED <<fault, validation_results, time_str, args, history, session,
                     result>>

\* UPDATE programs SET start_time = %s, end_time = %s WHERE program_name = %s
UpdateProgram ==
    \E n \in DbNames, t \in DbTimes :
        /\ NameInUse(n)
        /\ LET Q == [i \in DOMAIN programs |->
                        IF programs[i].program_name = n
                        THEN [programs[i] EXCEPT !.start_time = t[1],
                                                 !.end_time = t[2]]
                        ELSE programs[i]]
           IN  /\ programs' = Q
               /\ program_intervals' =
                      AfterUpdates(program_intervals, programs, Q, Len(Q))
        /\ UNCHANGED <<fault, validation_results, time_str, args, history, session,
                     result>>

\* UPDATE programs SET program_name = %s WHERE program_name = %s
RenameProgram ==
    \E old_name \in DbNames, new_name \in DbNames :
        /\ NameInUse(old_name)
        /\ ~NameInUse(new_name)
        /\ LET Q == [i \in DOMAIN programs |->
                        IF programs[i].program_name = old_name
                        THEN [programs[i] EXCEPT !.program_name = new_name]
                        ELSE programs[i]]
           IN  /\ programs' = Q
               /\ program_intervals' =
                      AfterUpdates(program_intervals, programs, Q, Len(Q))
        /\ UNCHANGED <<fault, validation_results, time_str, args, history, session,
                     result>>

\* DELETE FROM programs WHERE program_name = %s
DeleteProgram ==
    \E n \in DbNames :
        /\ NameInUse(n)
        /\ LET D == SelectSeq(programs, LAMBDA p : p.program_name = n)
           IN  /\ programs' = SelectSeq(programs, LAMBDA p : p.program_name # n)
               /\ program_intervals' =
                      AfterDeletes(program_intervals, D, Len(D))
        /\ UNCHANGED <<fault, validation_results, time_str, args, history, session,
                     result>>

(***************************************************************************)
(* DataLoader.load_csv_to_programs (data_loader.py).                       *)
(* args.csv_rows are the rows csv.DictReader yields after the header, in   *)
(* order: a field is a str, character by character, or None (NULL) when    *)
(* the line is shorter than the header.                                    *)
(***************************************************************************)
\* str.strip()
Strip(s) == LTrim(RTrim(s))

dangerous_patterns ==
    << <<"d","r","o","p">>, <<"d","e","l","e","t","e">>,
       <<"i","n","s","e","r","t">>, <<"u","p","d","a","t","e">>,
       <<"s","e","l","e","c","t">>, <<"-","-">>, <<";">> >>

RECURSIVE DangerousErrors(_, _)
DangerousErrors(program_name, k) ==
    IF k = 0 THEN <<>>
    ELSE DangerousErrors(program_name, k - 1)
         \o (IF Contains(Lower(program_name), dangerous_patterns[k])
             THEN <<"Program name contains potentially dangerous pattern: "
                       \o ToStr(dangerous_patterns[k])>>
             ELSE <<>>)

validate_program_data(program_name, start_time, end_time) ==
    (IF program_name = <<>> THEN <<"Program name is missing or empty">>
     ELSE <<>>)
    \o (IF start_time = <<>> THEN <<"Start time is missing or empty">>
        ELSE <<>>)
    \o (IF end_time = <<>> THEN <<"End time is missing or empty">> ELSE <<>>)
    \o (IF program_name # <<>>
           /\ Contains(Lower(program_name), <<"n", "u", "l", "l">>)
        THEN <<"Program name contains NULL value">> ELSE <<>>)
    \o (IF program_name # <<>> /\ Len(program_name) > MaxNameLength
        THEN <<"Program name exceeds maximum length (255 characters)">>
        ELSE <<>>)
    \o (IF start_time # <<>>
        THEN validate_time_format(Val(start_time), "start_time") ELSE <<>>)
    \o (IF end_time # <<>>
        THEN validate_time_format(Val(end_time), "end_time") ELSE <<>>)
    \o DangerousErrors(program_name, Len(dangerous_patterns))

\* the TIME value PostgreSQL stores for an 'HH:MM' text that passed the
\* validation, in minutes after midnight
TimeOfText(text) ==
    LET parts == Split(text, ":")
    IN  Val(60 * Get(ParseInt(parts[1])) + Get(ParseInt(parts[2])))

\* The body of the for loop, for the k-th row the reader yields (row_num is
\* k + 1), applied to what the rows before it left: the two lists, the
\* INSERTs issued so far by row number, and the rows inserted.
\* fault = n: the n-th execute of the call raises.
\* mutant: a row whose INSERT raises is dropped from both lists
LoadRow_DropsFailedInsert(a, row, row_num, validate_only) ==
    IF \E f \in {"program_name", "start_time", "end_time"} : IsNull(row[f])
    THEN [a EXCEPT !.failed_records = Append(@,
              [row |-> row_num, data |-> row,
               errors |-> <<"Database error: 'NoneType' object has no attribute 'strip'">>])]
    ELSE LET program_name == Strip(Get(row.program_name))
             start_time == Strip(Get(row.start_time))
             end_time == Strip(Get(row.end_time))
             validation_errors ==
                 validate_program_data(program_name, start_time, end_time)
             record == [row |-> row_num, program_name |-> program_name,
                        start_time |-> start_time, end_time |-> end_time]
         IN  IF validation_errors # <<>>
             THEN [a EXCEPT !.failed_records = Append(@,
                      [row |-> row_num, data |-> row,
                       errors |-> validation_errors])]
             ELSE IF validate_only
             THEN [a EXCEPT !.successful_records = Append(@, record)]
             ELSE IF fault = Len(a.issued) + 1
             THEN [a EXCEPT !.issued = Append(@, row_num)]
             ELSE [a EXCEPT !.issued = Append(@, row_num),
                            !.inserted = Append(@, record),
                            !.successful_records = Append(@, record)]

\* mutant: validate_only is not looked at
LoadRow_AlwaysInserts(a, row, row_num, validate_only) ==
    IF \E f \in {"program_name", "start_time", "end_time"} : IsNull(row[f])
    THEN [a EXCEPT !.failed_records = Append(@,
              [row |-> row_num, data |-> row,
               errors |-> <<"Database error: 'NoneType' object has no attribute 'strip'">>])]
    ELSE LET program_name == Strip(Get(row.program_name))
             start_time == Strip(Get(row.start_time))
             end_time == Strip(Get(row.end_time))
             validation_errors ==
                 validate_program_data(program_name, start_time, end_time)
             record == [row |-> row_num, program_name |-> program_name,
                        start_time |-> start_time, end_time |-> end_time]
         IN  IF validation_errors # <<>>
             THEN [a EXCEPT !.failed_records = Append(@,
                      [row |-> row_num, data |-> row,
                       errors |-> validation_errors])]
             ELSE IF fault = Len(a.issued) + 1
             THEN [a EXCEPT !.issued = Append(@, row_num),
                            !.failed_records = Append(@,
                                [row |-> row_num, data |-> row,
                                 errors |-> <<"Database error: OperationalError">>])]
             ELSE [a EXCEPT !.issued = Append(@, row_num),
                            !.inserted = Append(@, record),
                            !.successful_records = Append(@, record)]

LoadRow(a, row, row_num, validate_only) ==
    \* row.get(...).strip() on a None field raises AttributeError, which the
    \* except clause of the loop body catches
    IF \E f \in {"program_name", "start_time", "end_time"} : IsNull(row[f])
    THEN [a EXCEPT !.failed_records = Append(@,
              [row |-> row_num, data |-> row,
               errors |-> <<"Database error: 'NoneType' object has no attribute 'strip'">>])]
    ELSE LET program_name == Strip(Get(row.program_name))
             start_time == Strip(Get(row.start_time))
             end_time == Strip(Get(row.end_time))
             validation_errors ==
                 validate_program_data(program_name, start_time, end_time)
             record == [row |-> row_num, program_name |-> program_name,
                        start_time |-> start_time, end_time |-> end_time]
         IN  IF validation_errors # <<>>
             THEN [a EXCEPT !.failed_records = Append(@,
                      [row |-> row_num, data |-> row,
                       errors |-> validation_errors])]
             ELSE IF validate_only
             THEN [a EXCEPT !.successful_records = Append(@, record)]
             ELSE IF fault = Len(a.issued) + 1
             THEN [a EXCEPT !.issued = Append(@, row_num),
                            !.failed_records = Append(@,
                                [row |-> row_num, data |-> row,
                                 errors |-> <<"Database error: OperationalError">>])]
             ELSE [a EXCEPT !.issued = Append(@, row_num),
                            !.inserted = Append(@, record),
                            !.successful_records = Append(@, record)]

\* for row_num, row in enumerate(reader, start=2)
RECURSIVE LoadRows(_, _, _)
LoadRows(rows, validate_only, k) ==
    IF k = 0
    THEN [successful_records |-> <<>>, failed_records |-> <<>>,
          issued |-> <<>>, inserted |-> <<>>]
    ELSE LoadRow(LoadRows(rows, validate_only, k - 1), rows[k], k + 1,
                 validate_only)

\* the rows of programs the INSERTs of a call add, with their serial ids
InsertedPrograms(inserted) ==
    [j \in 1..Len(inserted) |->
        [id |-> Val(NextId + j - 1),
         program_name |-> Val(inserted[j].program_name),
         start_time |-> TimeOfText(inserted[j].start_time),
         end_time |-> TimeOfText(inserted[j].end_time)]]

RECURSIVE AfterInserts(_, _, _)
AfterInserts(I, new, k) ==
    IF k = 0 THEN I
    ELSE IntervalsAfterInsert(AfterInserts(I, new, k - 1), new[k])

\* the programs table takes a bounded number of rows
MaxLoadedPrograms == 3

LoadCsvToPrograms ==
    /\ args # NoArgs
    /\ Len(programs) + Len(args.csv_rows) <= MaxLoadedPrograms
    /\ LET a == LoadRows(args.csv_rows, args.validate_only,
                         Len(args.csv_rows))
           new == InsertedPrograms(a.inserted)
       IN  /\ programs' = programs \o new
           /\ program_intervals' =
                  AfterInserts(program_intervals, new, Len(new))
           /\ result' = [op |-> "load_csv_to_programs", raised |-> FALSE,
                         value |-> [successful_records |-> a.successful_records,
                                    failed_records |-> a.failed_records],
                         issued |-> a.issued]
    /\ UNCHANGED <<fault, validation_results, time_str, args, history, session>>

(***************************************************************************)
(* The step "the database is clean" (test_tv_intervals.py,                 *)
(* test_data_integrity.py) and the fixtures under it (conftest.py).        *)
(***************************************************************************)
\* db_cursor opens a cursor and yields it; clean_database yields db_cursor.
\* Neither issues a statement before or after the yield.
CleanDatabaseStatements == <<>>

\* the step's body attaches a text to the report and returns
DatabaseIsClean ==
    /\ result' = [op |-> "database_is_clean", raised |-> FALSE,
                  value |-> "Database cleaned successfully",
                  issued |-> CleanDatabaseStatements]
    /\ UNCHANGED environment

(***************************************************************************)
(* The fixture db_connection (conftest.py), one per test session.          *)
(* session.pc is the fixture's position, session.attempt the loop          *)
(* variable, session.connection the local variable connection (NULL is     *)
(* None, otherwise the number of the attempt that made it), session.trace  *)
(* what the fixture has done so far, in order.                             *)
(***************************************************************************)
max_retries == 10
retry_delay == 2

\* what an attempt meets: psycopg2.connect raises OperationalError, or it
\* returns and the test query SELECT 1 raises OperationalError, or both go
\* through
AttemptOutcomes == {"connect_raises", "select_raises", "ok"}

SessionStart == [NoSession EXCEPT !.pc = "connect"]

\* mutant: a connection that psycopg2.connect returned is taken as good
\* whatever the test query does
Connect_WithoutTestQuery ==
    /\ session.pc = "connect"
    /\ \E outcome \in AttemptOutcomes :
          LET made == IF outcome = "connect_raises" THEN session.connection
                      ELSE Val(session.attempt + 1)
              tried == Append(session.trace,
                              <<"attempt", session.attempt + 1, outcome>>)
          IN  session' =
                  IF outcome # "connect_raises"
                  THEN [session EXCEPT !.pc = "connected",
                                       !.connection = made, !.trace = tried]
                  ELSE IF session.attempt < max_retries - 1
                  THEN [session EXCEPT !.pc = "sleep",
                                       !.connection = made, !.trace = tried]
                  ELSE [session EXCEPT !.pc = "raised",
                                       !.connection = made,
                                       !.trace = Append(tried, <<"raise">>)]
    /\ UNCHANGED <<programs, program_intervals, fault, validation_results,
                   time_str, args, history, result>>

\* the body of the try block for one value of attempt, and the branch of
\* the except clause it ends in
Connect ==
    /\ session.pc = "connect"
    /\ \E outcome \in AttemptOutcomes :
          LET made == IF outcome = "connect_raises" THEN session.connection
                      ELSE Val(session.attempt + 1)
              tried == Append(session.trace,
                              <<"attempt", session.attempt + 1, outcome>>)
          IN  session' =
                  IF outcome = "ok"
                  THEN [session EXCEPT !.pc = "connected",
                                       !.connection = made, !.trace = tried]
                  ELSE IF session.attempt < max_retries - 1
                  THEN [session EXCEPT !.pc = "sleep",
                                       !.connection = made, !.trace = tried]
                  ELSE [session EXCEPT !.pc = "raised",
                                       !.connection = made,
                                       !.trace = Append(tried, <<"raise">>)]
    /\ UNCHANGED <<programs, program_intervals, fault, validation_results,
                   time_str, args, history, result>>

\* time.sleep(retry_delay), then the next value of attempt
Sleep ==
    /\ session.pc = "sleep"
    /\ session' = [session EXCEPT !.pc = "connect", !.attempt = @ + 1,
                                  !.trace = Append(@, <<"sleep", retry_delay>>)]
    /\ UNCHANGED <<programs, program_intervals, fault, validation_results,
                   time_str, args, history, result>>

\* after the loop: if connection: yield connection
Yield ==
    /\ session.pc = "connected"
    /\ session' =
           IF ~IsNull(session.connection)
           THEN [session EXCEPT !.pc = "yielded",
                     !.trace = Append(@, <<"yield", Get(session.connection)>>)]
           ELSE [session EXCEPT !.pc = "raised",
                     !.trace = Append(@, <<"raise">>)]
    /\ UNCHANGED <<programs, program_intervals, fault, validation_results,
                   time_str, args, history, result>>

\* the session ends and pytest resumes the fixture: connection.close()
Teardown ==
    /\ session.pc = "yielded"
    /\ session' = [session EXCEPT !.pc = "closed",
                       !.trace = Append(@, <<"close", Get(session.connection)>>)]
    /\ UNCHANGED <<programs, program_intervals, fault, validation_results,
                   time_str, args, history, result>>

(***************************************************************************)
(* update_performance_dashboard.py: main, as far as the history file goes. *)
(* history is the file: NULL when it does not exist, otherwise its         *)
(* content, which is JSON text that parses to a list of runs or does not   *)
(* parse.  A run's metrics are stood for by its run number.                *)
(***************************************************************************)
CorruptedHistory == Val([valid |-> FALSE, runs |-> <<>>])
SavedHistory(runs) == Val([valid |-> TRUE, runs |-> runs])

load_history(history_file) ==
    IF IsNull(history_file) THEN <<>>
    ELSE IF ~Get(history_file).valid THEN <<>>
    ELSE Get(history_file).runs

\* s[-n:] for n >= 0; -0 is 0, so s[-0:] is s[0:], the whole list
SliceFromMinus(s, n) ==
    LET start == IF n = 0 THEN 0
                 ELSE IF Len(s) - n < 0 THEN 0 ELSE Len(s) - n
    IN  SubSeq(s, start + 1, Len(s))

\* runs are numbered in the order they happen, up to a bound
MaxRunNumber == 6
MaxHistoryArg == 3

UpdatePerformanceDashboard ==
    \E max_history \in 0..MaxHistoryArg, run_number \in 1..MaxRunNumber :
        /\ \A i \in DOMAIN load_history(history) :
              load_history(history)[i] < run_number
        /\ LET appended == Append(load_history(history), run_number)
               kept == IF Len(appended) > max_history
                       THEN SliceFromMinus(appended, max_history)
                       ELSE appended
           IN  /\ history' = SavedHistory(kept)
               /\ result' = [op |-> "update_performance_dashboard",
                             raised |-> FALSE, value |-> kept,
                             issued |-> <<>>]
        /\ args' = [max_history |-> max_history, run_number |-> run_number]
        /\ UNCHANGED <<programs, program_intervals, fault, validation_results,
                       time_str, session>>

(***************************************************************************)
(* TVProgramDataGenerator (performance_test_generator.py).                 *)
(* The random draws of a call are part of args.  Of the columns of a       *)
(* generated row the model keeps program_name, start_time and end_time.    *)
(***************************************************************************)
DigitChar(d) == <<"0", "1", "2", "3", "4", "5", "6", "7", "8", "9">>[d + 1]

\* f"{n}" for n >= 0
RECURSIVE DigitChars(_)
DigitChars(n) ==
    IF n < 10 THEN <<DigitChar(n)>>
    ELSE DigitChars(n \div 10) \o <<DigitChar(n % 10)>>

\* f"{n:02d}", f"{n:03d}"
ZeroPadded(n, width) ==
    LET ds == DigitChars(n)
    IN  [i \in 1..(width - Len(ds)) |-> "0"] \o ds

\* the categories of self.categories, and "None" for the default argument
Categories == {"News", "Drama", "Comedy", "Sports", "Documentary", "Reality",
               "Kids", "Movies", "Talk Show", "Game Show", "None"}

\* what random.choice and random.randint can return for start_hour and
\* for duration_minutes, by category
StartHours(category) ==
    CASE category = "News" -> {6, 7, 12, 18, 23}
      [] category = "Movies" -> 18..22
      [] category = "Sports" -> 12..22
      [] category = "Kids" -> {7, 8, 9, 15, 16, 17}
      [] category \in {"Drama", "Comedy"} -> 19..22
      [] OTHER -> 6..23

Durations(category) ==
    CASE category = "News" -> {15, 30, 60}
      [] category = "Movies" -> {90, 120, 150, 180}
      [] category = "Sports" -> {120, 180, 240}
      [] category = "Kids" -> {15, 30, 60}
      [] category \in {"Drama", "Comedy"} -> {30, 60}
      [] OTHER -> {15, 30, 45, 60, 90, 120}

\* mutant: start times on a ten-minute grid
StartMinutes_TenMinuteGrid == {0, 10, 20, 30, 40, 50}

\* random.choice([0, 15, 30, 45])
StartMinutes == {0, 15, 30, 45}

\* the draws generate_realistic_time_slot can make for a category
SlotDraws(category) ==
    [start_hour : StartHours(category),
     duration_minutes : Durations(category),
     start_minute : StartMinutes]

generate_realistic_time_slot(draw) ==
    LET end_total_minutes ==
            (draw.start_hour * 60 + draw.start_minute + draw.duration_minutes)
                % (24 * 60)
        end_hour == end_total_minutes \div 60
        end_minute == end_total_minutes % 60
    IN  << ZeroPadded(draw.start_hour, 2) \o <<":">>
               \o ZeroPadded(draw.start_minute, 2),
           ZeroPadded(end_hour, 2) \o <<":">> \o ZeroPadded(end_minute, 2) >>

GenerateRealisticTimeSlot ==
    /\ args # NoArgs
    /\ result' = [op |-> "generate_realistic_time_slot", raised |-> FALSE,
                  value |-> generate_realistic_time_slot(args.draw),
                  issued |-> <<>>]
    /\ UNCHANGED environment

\* f"{program_name} (Ch{channel_id:03d}-D{day_of_week})-{start_id + i}"
unique_name(program_name, channel_id, day_of_week, index) ==
    program_name \o <<" ", "(", "C", "h">> \o ZeroPadded(channel_id, 3)
        \o <<"-", "D">> \o DigitChars(day_of_week) \o <<")", "-">>
        \o DigitChars(index)

\* mutant: the index in the name counts within the batch
generate_program_batch_BatchLocalIndex(draws, batch_size, start_id) ==
    [j \in 1..batch_size |->
        LET i == j - 1
            d == draws[start_id + i + 1]
            slot == generate_realistic_time_slot(d)
        IN  [program_name |-> unique_name(d.show_name, d.channel_id,
                                          d.day_of_week, i),
             start_time |-> slot[1], end_time |-> slot[2],
             index |-> i]]

\* draws[k] holds the random draws for the k-th row of the whole call
generate_program_batch(draws, batch_size, start_id) ==
    [j \in 1..batch_size |->
        LET i == j - 1
            d == draws[start_id + i + 1]
            slot == generate_realistic_time_slot(d)
        IN  [program_name |-> unique_name(d.show_name, d.channel_id,
                                          d.day_of_week, start_id + i),
             start_time |-> slot[1], end_time |-> slot[2],
             index |-> start_id + i]]

Min(a, b) == IF a < b THEN a ELSE b

\* the batches bulk_insert_programs generates and inserts, in order
Batches(total_records, batch_size, draws) ==
    LET total_batches == (total_records + batch_size - 1) \div batch_size
    IN  [n \in 1..total_batches |->
            LET batch_num == n - 1
                batch_start == batch_num * batch_size
                current_batch_size ==
                    Min(batch_size, total_records - batch_start)
            IN  generate_program_batch(draws, current_batch_size, batch_start)]

\* the programs table takes a bounded number of rows
MaxGeneratedPrograms == 5

BulkInsertPrograms ==
    /\ args # NoArgs
    /\ Len(programs) + args.total_records <= MaxGeneratedPrograms
    /\ LET batches == Batches(args.total_records, args.batch_size, args.draws)
           new == InsertedPrograms(Flatten(batches))
       IN  /\ programs' = programs \o new
           /\ program_intervals' =
                  AfterInserts(program_intervals, new, Len(new))
           /\ result' = [op |-> "bulk_insert_programs", raised |-> FALSE,
                         value |-> batches,
                         issued |-> [n \in DOMAIN batches |-> "INSERT"]]
    /\ UNCHANGED <<fault, validation_results, time_str, args, history, session>>

\* s LIKE pattern: % stands for any run of characters, _ for any one
RECURSIVE Like(_, _)
Like(s, pattern) ==
    IF pattern = <<>> THEN s = <<>>
    ELSE IF Head(pattern) = "%"
    THEN Like(s, Tail(pattern)) \/ (s # <<>> /\ Like(Tail(s), pattern))
    ELSE /\ s # <<>>
         /\ Head(pattern) = "_" \/ Head(pattern) = Head(s)
         /\ Like(Tail(s), Tail(pattern))

\* '%(Ch%-%)'
CleanupPattern == <<"%", "(", "C", "h", "%", "-", "%", ")">>

\* DELETE FROM programs WHERE program_name LIKE '%(Ch%-%)'; cursor.rowcount
CleanupTestData ==
    LET Matches(p) == ~IsNull(p.program_name)
                         /\ Like(Get(p.program_name), CleanupPattern)
        D == SelectSeq(programs, Matches)
    IN  /\ programs' = SelectSeq(programs, LAMBDA p : ~Matches(p))
        /\ program_intervals' = AfterDeletes(program_intervals, D, Len(D))
        /\ result' = [op |-> "cleanup_test_data", raised |-> FALSE,
                      value |-> Len(D), issued |-> <<"DELETE">>]
        /\ UNCHANGED <<fault, validation_results, time_str, args, history,
                       session>>

(***************************************************************************)
(* Datasets.  The tables are filled outside the validator; every family    *)
(* below enumerates the datasets of one kind up to a bound on the rows.    *)
(***************************************************************************)
SeqsUpTo(S, n) == UNION {[1..k -> S] : k \in 0..n}

\* programs.id is the serial key: the row's position in the table
MkPrograms(t) == [i \in 1..Len(t) |->
    [id |-> Val(i), program_name |-> t[i][1],
     start_time |-> t[i][2], end_time |-> t[i][3]]]

MaxRefPrograms == 3
MaxRefIntervals == 3

RefNames == {Val(<<"a">>), Val(<<"b">>), NULL}

InitRef ==
    /\ programs \in {MkPrograms(t) :
           t \in SeqsUpTo(RefNames \X {Val(540)} \X {Val(600)}, MaxRefPrograms)}
    /\ program_intervals \in
           SeqsUpTo([program_name : RefNames, interval_count : {Val(4)}],
                    MaxRefIntervals)
    /\ fault = 0
    /\ validation_results = EmptyResults
    /\ time_str = NULL
    /\ args = NoArgs
    /\ history = <<>>
    /\ session = NoSession
    /\ result = NoCall

\* time-constraint datasets: distinct names, every combination of times
MaxTimePrograms == 2

PositionNames == <<"a", "b", "c", "d", "e", "f">>
TimeValues == {NULL, Val(540), Val(600), Val(720), Val(900), Val(1380)}

InitTime ==
    /\ programs \in {MkPrograms([i \in 1..Len(t) |->
                         <<Val(<<PositionNames[i]>>), t[i][1], t[i][2]>>]) :
           t \in SeqsUpTo(TimeValues \X TimeValues, MaxTimePrograms)}
    /\ program_intervals = <<>>
    /\ fault = 0
    /\ validation_results = EmptyResults
    /\ time_str = NULL
    /\ args = NoArgs
    /\ history = <<>>
    /\ session = NoSession
    /\ result = NoCall

\* interval-calculation datasets: stored counts that match or not
MaxCalcPrograms == 2
MaxCalcIntervals == 2

CalcTimes == {<<Val(540), Val(630)>>, <<Val(1380), Val(0)>>}
CalcCounts == {Val(4), Val(6)}

InitCalc ==
    /\ programs \in {MkPrograms([i \in 1..Len(t) |->
                         <<t[i][1], t[i][2][1], t[i][2][2]>>]) :
           t \in SeqsUpTo(RefNames \X CalcTimes, MaxCalcPrograms)}
    /\ program_intervals \in
           SeqsUpTo([program_name : RefNames, interval_count : CalcCounts],
                    MaxCalcIntervals)
    /\ fault = 0
    /\ validation_results = EmptyResults
    /\ time_str = NULL
    /\ args = NoArgs
    /\ history = <<>>
    /\ session = NoSession
    /\ result = NoCall

\* data-quality datasets: empty, blank, long, null and repeated names,
\* zero-duration and null times
MaxQualityPrograms == 2

LongName == [i \in 1..(MaxNameLength + 1) |-> "x"]
QualityNames == {Val(<<"a">>), Val(<<"b">>), NULL, Val(<<>>), Val(<<" ">>),
                 Val(LongName)}
QualityTimes == {<<Val(540), Val(600)>>, <<Val(600), Val(600)>>,
                 <<NULL, NULL>>}

InitQuality ==
    /\ programs \in {MkPrograms([i \in 1..Len(t) |->
                         <<t[i][1], t[i][2][1], t[i][2][2]>>]) :
           t \in SeqsUpTo(QualityNames \X QualityTimes, MaxQualityPrograms)}
    /\ program_intervals = <<>>
    /\ fault = 0
    /\ validation_results = EmptyResults
    /\ time_str = NULL
    /\ args = NoArgs
    /\ history = <<>>
    /\ session = NoSession
    /\ result = NoCall

\* business-rule datasets: keyword-like names in either case, minutes on and
\* off the quarter hour, programs that wrap, null names and times
MaxBusinessPrograms == 2

BusinessNames == {Val(<<"a">>), Val(<<"D", "r", "o", "p">>), Val(<<"a", ";">>),
                 NULL}
BusinessTimes == {<<Val(540), Val(600)>>, <<Val(547), Val(600)>>,
                 <<Val(1380), Val(60)>>, <<Val(0), Val(1439)>>,
                 <<NULL, Val(610)>>, <<Val(600), NULL>>}

InitBusiness ==
    /\ programs \in {MkPrograms([i \in 1..Len(t) |->
                         <<t[i][1], t[i][2][1], t[i][2][2]>>]) :
           t \in SeqsUpTo(BusinessNames \X BusinessTimes, MaxBusinessPrograms)}
    /\ program_intervals \in
           SeqsUpTo([program_name : {Val(<<"a">>)}, interval_count : {Val(4)}], 1)
    /\ fault = 0
    /\ validation_results = EmptyResults
    /\ time_str = NULL
    /\ args = NoArgs
    /\ history = <<>>
    /\ session = NoSession
    /\ result = NoCall

\* comprehensive results to format: every combination of valid and invalid
\* checks, with up to MaxReportMessages errors in the invalid checks, in the
\* valid checks and warnings in business_rules, the keys in several orders
MaxReportMessages == 2

Message(kind, check_name, i) ==
    kind \o " " \o ToString(i) \o " of " \o check_name
Messages(kind, check_name, n) == [i \in 1..n |-> Message(kind, check_name, i)]

KeyOrders == {<<1, 2, 3, 4, 5>>, <<5, 4, 3, 2, 1>>, <<3, 1, 5, 2, 4>>}

ReportCheck(k, valid, n_errors, n_warnings) ==
    IF checks[k] = "business_rules"
    THEN [is_valid |-> valid, errors |-> Messages("error", checks[k], n_errors),
          warnings |-> Messages("warning", checks[k], n_warnings),
          suspicious_patterns |-> <<>>]
    ELSE [is_valid |-> valid, errors |-> Messages("error", checks[k], n_errors)]

ReportInput(valid, ne_invalid, ne_valid, n_warnings, overall_valid, order) ==
    << <<"overall_valid", overall_valid>>,
       <<"summary",
         [total_errors |-> ne_invalid * Cardinality({k \in 1..5 : ~valid[k]}),
          total_warnings |-> n_warnings, checks_performed |-> 5]>> >>
    \o [j \in 1..5 |->
          <<checks[order[j]],
            ReportCheck(order[j], valid[order[j]],
                        IF valid[order[j]] THEN ne_valid ELSE ne_invalid,
                        n_warnings)>>]

InitReport ==
    /\ programs = <<>>
    /\ program_intervals = <<>>
    /\ fault = 0
    /\ validation_results \in
           {ReportInput(valid, ne_invalid, ne_valid, n_warnings, overall_valid,
                        order) :
              valid \in [1..5 -> BOOLEAN],
              ne_invalid \in 0..MaxReportMessages,
              ne_valid \in 0..MaxReportMessages,
              n_warnings \in 0..MaxReportMessages,
              overall_valid \in BOOLEAN, order \in KeyOrders}
    /\ time_str = NULL
    /\ args = NoArgs
    /\ history = <<>>
    /\ session = NoSession
    /\ result = NoCall

MixedTimes == {<<Val(540), Val(600)>>, <<Val(600), Val(600)>>,
               <<Val(600), Val(540)>>}

\* connections that fail: the fault falls on any execute of a call, the
\* last one of a comprehensive run included, or on none
MaxFaultPrograms == 1
MaxFault == Len(ComprehensiveStatements)

InitFault ==
    /\ programs \in {MkPrograms([i \in 1..Len(t) |->
                         <<t[i][1], t[i][2][1], t[i][2][2]>>]) :
           t \in SeqsUpTo(RefNames \X MixedTimes, MaxFaultPrograms)}
    /\ program_intervals = <<>>
    /\ fault \in 0..MaxFault
    /\ validation_results = EmptyResults
    /\ time_str = NULL
    /\ args = NoArgs
    /\ history = <<>>
    /\ session = NoSession
    /\ result = NoCall

\* time strings for the loader: up to MaxTimeFields fields joined by ":",
\* an hour, then a minute, then seconds
MaxTimeFields == 3

HourTexts == {<<"2", "4">>, <<"2", "3">>, <<"0", "9">>, <<"2", "5">>,
              <<"-", "1">>, <<"x">>, <<>>}
MinuteTexts == {<<"0", "0">>, <<"3", "0">>, <<"6", "0">>, <<"0", "x">>}
SecondTexts == {<<"0", "0">>, <<"3", "0">>}

RECURSIVE JoinFields(_)
JoinFields(fs) ==
    IF Len(fs) = 1 THEN fs[1]
    ELSE fs[1] \o <<":">> \o JoinFields(Tail(fs))

FieldTexts(k) == IF k = 1 THEN HourTexts
                 ELSE IF k = 2 THEN MinuteTexts ELSE SecondTexts

TimeStrings ==
    {NULL, Val(<<"N", "u", "l", "l">>)} \cup
    {Val(JoinFields(fs)) :
        fs \in UNION {{f \in [1..n -> HourTexts \cup MinuteTexts \cup SecondTexts] :
                          \A k \in 1..n : f[k] \in FieldTexts(k)} :
                      n \in 1..MaxTimeFields}}

InitLoader ==
    /\ programs = <<>>
    /\ program_intervals = <<>>
    /\ fault = 0
    /\ validation_results = EmptyResults
    /\ time_str \in TimeStrings
    /\ args = NoArgs
    /\ history = <<>>
    /\ session = NoSession
    /\ result = NoCall

\* CSV files: rows that load, rows that fail the validation in one or in
\* several ways, and a line shorter than the header
MaxCsvRows == 2

CsvRow(program_name, start_time, end_time) ==
    [program_name |-> program_name, start_time |-> start_time,
     end_time |-> end_time]

CsvRowKinds ==
    { CsvRow(Val(<<" ", "a">>), Val(<<"0", "9", ":", "0", "0">>),
             Val(<<"1", "0", ":", "3", "0", " ">>)),
      CsvRow(Val(<<"b">>), Val(<<"2", "3", ":", "0", "0">>),
             Val(<<"0", "1", ":", "0", "0">>)),
      CsvRow(Val(<<>>), Val(<<"0", "9", ":", "0", "0">>),
             Val(<<"1", "0", ":", "0", "0">>)),
      CsvRow(Val(<<"a">>), Val(<<"2", "5", ":", "0", "0">>),
             Val(<<"1", "0", ":", "0", "0">>)),
      CsvRow(Val(<<"D", "r", "o", "p", ";">>), Val(<<"0", "9", ":", "0", "0">>),
             Val(<<"1", "0", ":", "0", "0">>)),
      CsvRow(Val(<<"N", "u", "l", "l">>), Val(<<" ">>), Val(<<"9">>)),
      CsvRow(Val(<<"c">>), Val(<<"0", "9", ":", "0", "0">>), NULL) }

InitCsv ==
    /\ programs = <<>>
    /\ program_intervals = <<>>
    /\ fault \in 0..MaxCsvRows
    /\ validation_results = EmptyResults
    /\ time_str = NULL
    /\ args \in [csv_rows : SeqsUpTo(CsvRowKinds, MaxCsvRows),
                 validate_only : BOOLEAN]
    /\ history = <<>>
    /\ session = NoSession
    /\ result = NoCall

\* a test session opens on a database that the tests have not touched yet
InitSession ==
    /\ programs = <<>>
    /\ program_intervals = <<>>
    /\ fault = 0
    /\ validation_results = EmptyResults
    /\ time_str = NULL
    /\ args = NoArgs
    /\ history = <<>>
    /\ session = SessionStart
    /\ result = NoCall

\* the first run of the dashboard update finds no history file, an empty
\* history, or a file that does not parse
InitDashboard ==
    /\ programs = <<>>
    /\ program_intervals = <<>>
    /\ fault = 0
    /\ validation_results = EmptyResults
    /\ time_str = NULL
    /\ args = NoArgs
    /\ history \in {NULL, CorruptedHistory, SavedHistory(<<>>)}
    /\ session = NoSession
    /\ result = NoCall

\* every draw generate_realistic_time_slot can make, for every category
InitSlots ==
    /\ programs = <<>>
    /\ program_intervals = <<>>
    /\ fault = 0
    /\ validation_results = EmptyResults
    /\ time_str = NULL
    /\ args \in UNION {[category : {c}, draw : SlotDraws(c)] : c \in Categories}
    /\ history = <<>>
    /\ session = NoSession
    /\ result = NoCall

\* bulk inserts of a few records in batches that divide them or not, into a
\* table that holds nothing, a program of another origin, or a program of
\* another origin whose name the cleanup pattern matches
MaxTotalRecords == 3
MaxBatchSize == 3

GeneratorDraws ==
    { [show_name |-> <<"N">>, channel_id |-> 7, day_of_week |-> 1,
       start_hour |-> 23, duration_minutes |-> 60, start_minute |-> 45],
      [show_name |-> <<"T", "V">>, channel_id |-> 500, day_of_week |-> 7,
       start_hour |-> 6, duration_minutes |-> 15, start_minute |-> 0] }

PreloadedPrograms ==
    { <<>>,
      MkPrograms(<< <<Val(<<"x">>), Val(540), Val(630)>> >>),
      MkPrograms(<< <<Val(<<"(", "C", "h", "-", ")">>), Val(540), Val(630)>> >>) }

InitGenerator ==
    /\ programs \in PreloadedPrograms
    /\ program_intervals =
           AfterInserts(<<>>, programs, Len(programs))
    /\ fault = 0
    /\ validation_results = EmptyResults
    /\ time_str = NULL
    /\ args \in UNION {[total_records : {t}, batch_size : 1..MaxBatchSize,
                        draws : [1..t -> GeneratorDraws]] :
                       t \in 1..MaxTotalRecords}
    /\ history = <<>>
    /\ session = NoSession
    /\ result = NoCall

\* the clean database the interval scenarios start from
InitDb ==
    /\ programs = <<>>
    /\ program_intervals = <<>>
    /\ fault = 0
    /\ validation_results = EmptyResults
    /\ time_str = NULL
    /\ args = NoArgs
    /\ history = <<>>
    /\ session = NoSession
    /\ result = NoCall

\* datasets with findings of several kinds at once
MaxPrograms == 2
MaxIntervals == 1

Init ==
    /\ programs \in {MkPrograms([i \in 1..Len(t) |->
                         <<t[i][1], t[i][2][1], t[i][2][2]>>]) :
           t \in SeqsUpTo(RefNames \X MixedTimes, MaxPrograms)}
    /\ program_intervals \in
           SeqsUpTo([program_name : RefNames, interval_count : CalcCounts],
                    MaxIntervals)
    /\ fault = 0
    /\ validation_results = EmptyResults
    /\ time_str = NULL
    /\ args = NoArgs
    /\ history = <<>>
    /\ session = NoSession
    /\ result = NoCall

Next ==
    \/ ValidateReferentialIntegrity
    \/ ValidateTimeConstraints
    \/ ValidateIntervalCalculations
    \/ ValidateDataQuality
    \/ ValidateBusinessRules
    \/ RunComprehensiveValidation

\* the helper functions take their steps on their own arguments
NextReport == FormatValidationReport
NextLoader == ValidateTimeFormat
NextCsv == LoadCsvToPrograms

NextDashboard == UpdatePerformanceDashboard
NextSlots == GenerateRealisticTimeSlot

\* a performance run inserts its records and cleans up
NextGenerator ==
    \/ BulkInsertPrograms
    \/ CleanupTestData

\* the session fixture, from its first line to its teardown
NextSession ==
    \/ Connect
    \/ Sleep
    \/ Yield
    \/ Teardown

\* the validator next to a client that writes to programs
NextDb ==
    \/ Next
    \/ InsertProgram
    \/ UpdateProgram
    \/ RenameProgram
    \/ DeleteProgram

\* scenarios one after the other on one database: each opens with the step
\* "the database is clean" and then writes to programs
NextScenarios ==
    \/ DatabaseIsClean
    \/ InsertProgram
    \/ UpdateProgram
    \/ RenameProgram
    \/ DeleteProgram

Spec == Init /\ [][Next]_vars
SpecRef == InitRef /\ [][Next]_vars
SpecTime == InitTime /\ [][Next]_vars
SpecCalc == InitCalc /\ [][Next]_vars
SpecQuality == InitQuality /\ [][Next]_vars
SpecBusiness == InitBusiness /\ [][Next]_vars
SpecReport == InitReport /\ [][NextReport]_vars
SpecFault == InitFault /\ [][Next]_vars
SpecLoader == InitLoader /\ [][NextLoader]_vars
SpecDb == InitDb /\ [][NextDb]_vars
SpecCsv == InitCsv /\ [][NextCsv]_vars
\* pytest ends every session and then resumes the fixtures it holds
SpecSession == InitSession /\ [][NextSession]_vars /\ WF_vars(NextSession)
SpecDashboard == InitDashboard /\ [][NextDashboard]_vars
SpecSlots == InitSlots /\ [][NextSlots]_vars
SpecGenerator == InitGenerator /\ [][NextGenerator]_vars
SpecScenarios == InitDb /\ [][NextScenarios]_vars

(***************************************************************************)
(* Properties                                                              *)
(***************************************************************************)
Range(s) == {s[i] : i \in DOMAIN s}

ProgramNames == {programs[i].program_name : i \in DOMAIN programs}
IntervalNames == {program_intervals[j].program_name : j \in DOMAIN program_intervals}

IntervalRowsNamed(n) ==
    {j \in DOMAIN program_intervals : program_intervals[j].program_name = n}
ProgramRowsNamed(n) ==
    {i \in DOMAIN programs : programs[i].program_name = n}

\* every program name is carried by exactly one interval row and every
\* interval name by exactly one program row (a null name counted as a name)
OneToOneAsStated ==
    /\ \A n \in ProgramNames : Cardinality(IntervalRowsNamed(n)) = 1
    /\ \A n \in IntervalNames : Cardinality(ProgramRowsNamed(n)) = 1

\* every row carries a name, every program has exactly one interval row of
\* its name and every interval row exactly one program of its name
OneToOneByName ==
    /\ NULL \notin ProgramNames \cup IntervalNames
    /\ \A i \in DOMAIN programs :
          /\ Cardinality(IntervalRowsNamed(programs[i].program_name)) = 1
          /\ Cardinality(ProgramRowsNamed(programs[i].program_name)) = 1
    /\ \A j \in DOMAIN program_intervals :
          /\ Cardinality(ProgramRowsNamed(program_intervals[j].program_name)) = 1
          /\ Cardinality(IntervalRowsNamed(program_intervals[j].program_name)) = 1

AfterRef == result.op = "validate_referential_integrity"

\* C1 as stated: on every dataset in which each program name has exactly one
\* interval row of that name and vice versa, validate_referential_integrity
\* returns is_valid with empty orphaned_intervals and missing_intervals; and
\* is_valid is false exactly when one of the two lists is non-empty.
C1_AsStated ==
    AfterRef =>
        LET r == result.value
        IN  /\ OneToOneAsStated =>
                  /\ r.is_valid
                  /\ r.orphaned_intervals = <<>>
                  /\ r.missing_intervals = <<>>
            /\ ~r.is_valid <=>
                  (r.orphaned_intervals # <<>> \/ r.missing_intervals # <<>>)

\* C1 amended: on every dataset without null names whose programs and
\* interval rows correspond one to one by name,
\* validate_referential_integrity returns is_valid with empty
\* orphaned_intervals and missing_intervals; and on every dataset is_valid is
\* false exactly when one of the two lists is non-empty.
C1_ReferentialValid ==
    AfterRef =>
        LET r == result.value
        IN  /\ OneToOneByName =>
                  /\ r.is_valid
                  /\ r.orphaned_intervals = <<>>
                  /\ r.missing_intervals = <<>>
            /\ ~r.is_valid <=>
                  (r.orphaned_intervals # <<>> \/ r.missing_intervals # <<>>)

C1_Witness ==
    /\ AfterRef
    /\ OneToOneByName
    /\ Len(programs) = 2
    /\ result.value.is_valid

\* C2 as stated: orphaned_intervals is IntervalNames \ ProgramNames and
\* missing_intervals is ProgramNames \ IntervalNames, null names included.
C2_SetDifference ==
    AfterRef =>
        LET r == result.value
        IN  /\ Range(r.orphaned_intervals) = IntervalNames \ ProgramNames
            /\ Range(r.missing_intervals) = ProgramNames \ IntervalNames

\* C2 amended: a non-null name is in orphaned_intervals exactly when some
\* interval row carries it and no program row does, and in missing_intervals
\* exactly when some program row carries it and no interval row does; a null
\* name matches nothing, so NULL is in orphaned_intervals exactly when some
\* interval row has a null name and in missing_intervals exactly when some
\* program row has a null name.
C2_AntiJoin ==
    AfterRef =>
        LET r == result.value
        IN  /\ Range(r.orphaned_intervals) \ {NULL} =
                   (IntervalNames \ ProgramNames) \ {NULL}
            /\ Range(r.missing_intervals) \ {NULL} =
                   (ProgramNames \ IntervalNames) \ {NULL}
            /\ NULL \in Range(r.orphaned_intervals) <=> NULL \in IntervalNames
            /\ NULL \in Range(r.missing_intervals) <=> NULL \in ProgramNames

C2_Witness ==
    /\ AfterRef
    /\ NULL \in ProgramNames /\ NULL \in IntervalNames
    /\ NULL \in Range(result.value.orphaned_intervals)
    /\ NULL \in Range(result.value.missing_intervals)
    /\ Val(<<"a">>) \in Range(result.value.orphaned_intervals)
    /\ Val(<<"b">>) \in Range(result.value.missing_intervals)

AfterTime == result.op = "validate_time_constraints"

HasTimes(p) == ~IsNull(p.start_time) /\ ~IsNull(p.end_time)
Overnight(p) == HasTimes(p) /\ Get(p.start_time) > Get(p.end_time)

\* time x is before time y; a missing time is before or after nothing
Before(x, y) == ~IsNull(x) /\ ~IsNull(y) /\ Get(x) < Get(y)

\* the pair of programs a, b is listed in overlapping_programs, either way round
ReportedPair(a, b) ==
    \E o \in Range(result.value.overlapping_programs) :
        \/ /\ o.program1 = a.program_name /\ o.program2 = b.program_name
           /\ o.start1 = a.start_time /\ o.end1 = a.end_time
           /\ o.start2 = b.start_time /\ o.end2 = b.end_time
        \/ /\ o.program1 = b.program_name /\ o.program2 = a.program_name
           /\ o.start1 = b.start_time /\ o.end1 = b.end_time
           /\ o.start2 = a.start_time /\ o.end2 = a.end_time

\* C3: two distinct non-overnight programs A, B are listed in
\* overlapping_programs exactly when A.start < B.end and A.end > B.start, so
\* not when one ends at the minute the other starts; a listed pair makes
\* is_valid false.
C3_OverlapStrict ==
    AfterTime =>
        /\ \A i, j \in DOMAIN programs :
              (i # j /\ ~Overnight(programs[i]) /\ ~Overnight(programs[j])) =>
                  (ReportedPair(programs[i], programs[j]) <=>
                      /\ Before(programs[i].start_time, programs[j].end_time)
                      /\ Before(programs[j].start_time, programs[i].end_time))
        /\ result.value.overlapping_programs # <<>> => ~result.value.is_valid

C3_Witness ==
    /\ AfterTime
    /\ Len(programs) = 2
    /\ programs[1].start_time = Val(540) /\ programs[1].end_time = Val(720)
    /\ programs[2].start_time = Val(600) /\ programs[2].end_time = Val(900)
    /\ ReportedPair(programs[1], programs[2])
    /\ ~result.value.is_valid

\* C4: no pair of overlapping_programs contains a program that wraps past
\* midnight (start > end), whatever the times of the other program.
C4_OvernightExcluded ==
    AfterTime =>
        /\ \A i, j \in DOMAIN programs :
              (i # j /\ (Overnight(programs[i]) \/ Overnight(programs[j]))) =>
                  ~ReportedPair(programs[i], programs[j])
        /\ \A o \in Range(result.value.overlapping_programs) :
              /\ ~Overnight([start_time |-> o.start1, end_time |-> o.end1])
              /\ ~Overnight([start_time |-> o.start2, end_time |-> o.end2])

\* an overnight program and a daytime one whose times satisfy both comparisons
C4_Witness ==
    /\ AfterTime
    /\ Len(programs) = 2
    /\ programs[1].start_time = Val(900) /\ programs[1].end_time = Val(600)
    /\ programs[2].start_time = Val(540) /\ programs[2].end_time = Val(1380)
    /\ result.value.overlapping_programs = <<>>

InNegativeDurations(p) == TimesOf(p) \in Range(result.value.negative_durations)

\* C5: a program is in negative_durations exactly when start > end and not
\* (start > 12:00 and end < 12:00); a non-empty list makes is_valid false.
C5_NegativeDurations ==
    AfterTime =>
        /\ \A i \in DOMAIN programs :
              InNegativeDurations(programs[i]) <=>
                  /\ Overnight(programs[i])
                  /\ ~(/\ Get(programs[i].start_time) > Noon
                       /\ Get(programs[i].end_time) < Noon)
        /\ \A n \in Range(result.value.negative_durations) :
              \E i \in DOMAIN programs : n = TimesOf(programs[i])
        /\ result.value.negative_durations # <<>> => ~result.value.is_valid

\* a program from exactly 12:00 into the morning is flagged, one from the
\* afternoon into the morning is not
C5_Witness ==
    /\ AfterTime
    /\ Len(programs) = 2
    /\ programs[1].start_time = Val(Noon) /\ programs[1].end_time = Val(600)
    /\ programs[2].start_time = Val(1380) /\ programs[2].end_time = Val(540)
    /\ InNegativeDurations(programs[1])
    /\ ~InNegativeDurations(programs[2])
    /\ ~result.value.is_valid

AfterCalc == result.op = "validate_interval_calculations"

\* the interval row pi holds the stored count of program p: it carries the
\* program's name (a row without name holds the count of no program)
StoredFor(p, pi) ==
    ~IsNull(p.program_name) /\ p.program_name = pi.program_name

CalculationRecord(p, pi) ==
    [program_name |-> p.program_name,
     start_time |-> p.start_time, end_time |-> p.end_time,
     stored_count |-> pi.interval_count,
     calculated_count |-> count_15min_intervals(p.start_time, p.end_time)]

\* C6: incorrect_calculations holds a record with the program name, the
\* stored count and the calculated count for each program whose stored count
\* (that of an interval row of its name) differs from
\* count_15min_intervals(start, end), and no other record; is_valid is false
\* exactly when the list is non-empty.
C6_IncorrectCalculations ==
    AfterCalc =>
        /\ \A i \in DOMAIN programs, j \in DOMAIN program_intervals :
              StoredFor(programs[i], program_intervals[j]) =>
                  (CalculationRecord(programs[i], program_intervals[j])
                       \in Range(result.value.incorrect_calculations)
                   <=> program_intervals[j].interval_count #
                          count_15min_intervals(programs[i].start_time,
                                                programs[i].end_time))
        /\ \A c \in Range(result.value.incorrect_calculations) :
              /\ c.stored_count # c.calculated_count
              /\ \E i \in DOMAIN programs, j \in DOMAIN program_intervals :
                    /\ StoredFor(programs[i], program_intervals[j])
                    /\ c = CalculationRecord(programs[i], program_intervals[j])
        /\ ~result.value.is_valid <=> result.value.incorrect_calculations # <<>>

\* a 90-minute program stored with 4 intervals, next to one stored correctly
C6_Witness ==
    /\ AfterCalc
    /\ Len(programs) = 2 /\ Len(program_intervals) = 2
    /\ programs[1].program_name # programs[2].program_name
    /\ \E c \in Range(result.value.incorrect_calculations) :
          c.stored_count = Val(4) /\ c.calculated_count = Val(6)
    /\ Len(result.value.incorrect_calculations) = 1
    /\ ~result.value.is_valid

AfterRun == result.op = "run_comprehensive_validation"

\* len(errors) of a check as the summary is to count it, and len(warnings)
CountedErrors(r) == IF ~r.is_valid THEN Len(r.errors) ELSE 0
CountedWarnings(r) == IF "warnings" \in DOMAIN r THEN Len(r.warnings) ELSE 0

\* C7: run_comprehensive_validation returns a summary whose total_errors is
\* the sum of len(errors) over the checks with is_valid false and whose
\* total_warnings is the sum of len(warnings) over all five checks.
C7_SummaryTotals ==
    AfterRun =>
        /\ ~result.raised
        /\ LET v == result.value
           IN  /\ v.summary.total_errors =
                      CountedErrors(v.referential_integrity)
                      + CountedErrors(v.time_constraints)
                      + CountedErrors(v.interval_calculations)
                      + CountedErrors(v.data_quality)
                      + CountedErrors(v.business_rules)
               /\ v.summary.total_warnings =
                      CountedWarnings(v.referential_integrity)
                      + CountedWarnings(v.time_constraints)
                      + CountedWarnings(v.interval_calculations)
                      + CountedWarnings(v.data_quality)
                      + CountedWarnings(v.business_rules)

\* C8: the result of run_comprehensive_validation holds the five per-check
\* records, checks_performed is 5, and overall_valid is false exactly when
\* one of the five records has is_valid false.
C8_OverallValid ==
    AfterRun =>
        /\ ~result.raised
        /\ LET v == result.value
           IN  /\ Range(CheckNames) \subseteq DOMAIN v
               /\ v.summary.checks_performed = 5
               /\ ~v.overall_valid <=>
                      \E c \in Range(CheckNames) : ~v[c].is_valid

AfterQuality == result.op = "validate_data_quality"

\* no finding of validate_data_quality other than zero duration: every
\* program has a name that is not blank, not longer than 255 characters and
\* not carried by another program
NoOtherQualityFinding ==
    \A i \in DOMAIN programs :
        /\ ~IsNull(programs[i].program_name)
        /\ LTrim(Get(programs[i].program_name)) # <<>>
        /\ Len(Get(programs[i].program_name)) <= MaxNameLength
        /\ \A j \in DOMAIN programs :
              j # i => programs[j].program_name # programs[i].program_name

ZeroDuration(p) == HasTimes(p) /\ Get(p.start_time) = Get(p.end_time)

\* C9: a program with start = end is listed in zero_duration, and only such
\* programs are; when zero duration is the only finding of
\* validate_data_quality, is_valid is true.
C9_ZeroDurationNonBlocking ==
    AfterQuality =>
        /\ \A i \in DOMAIN programs :
              ZeroDuration(programs[i]) <=>
                  TimesOf(programs[i]) \in Range(result.value.zero_duration)
        /\ NoOtherQualityFinding => result.value.is_valid

C9_Witness ==
    /\ AfterQuality
    /\ NoOtherQualityFinding
    /\ Len(programs) = 2
    /\ ZeroDuration(programs[1])
    /\ Len(result.value.zero_duration) = 1
    /\ result.value.is_valid

\* C10: a tolerable finding (zero duration, keyword-like name, minute off the
\* quarter hour) adds no message to errors: a check without blocking finding
\* returns an empty errors list.
C10_TolerableNotInErrors ==
    /\ (AfterQuality /\ NoOtherQualityFinding) => result.value.errors = <<>>
    /\ (result.op = "validate_business_rules" /\ ~result.raised) =>
           (result.value.is_valid => result.value.errors = <<>>)

AfterBusiness == result.op = "validate_business_rules"

\* the name carries one of the denylisted substrings, in any case
KeywordLike(p) ==
    /\ ~IsNull(p.program_name)
    /\ \E k \in SuspiciousKeywords : Contains(Lower(Get(p.program_name)), k)

OffQuarterHour(t) == ~IsNull(t) /\ Get(t) % 60 \notin {0, 15, 30, 45}

Mentions(messages, words) ==
    \E i \in DOMAIN messages : messages[i] = words

\* the programs a check of business rules is to report as too long
LongerThanADay(p) ==
    /\ HasTimes(p)
    /\ (IF Get(p.end_time) < Get(p.start_time)
        THEN DayMinutes - Get(p.start_time) + Get(p.end_time)
        ELSE Get(p.end_time) - Get(p.start_time)) > DayMinutes

\* C11: validate_business_rules returns a record in which every program
\* with a keyword-like name is in suspicious_patterns and counted by a
\* warning, programs with a start or end minute off the quarter hour are
\* counted by a warning, and neither finding adds to errors or clears
\* is_valid.
C11_BusinessWarnings ==
    AfterBusiness =>
        /\ ~result.raised
        /\ LET r == result.value
               suspicious == {i \in DOMAIN programs : KeywordLike(programs[i])}
               unaligned == {i \in DOMAIN programs :
                                \/ OffQuarterHour(programs[i].start_time)
                                \/ OffQuarterHour(programs[i].end_time)}
               long == {i \in DOMAIN programs : LongerThanADay(programs[i])}
           IN  /\ \A i \in suspicious :
                      programs[i].program_name \in Range(r.suspicious_patterns)
               /\ suspicious # {} <=>
                      Mentions(r.warnings, Found(Cardinality(suspicious),
                                       " programs with suspicious names"))
               /\ unaligned # {} <=>
                      Mentions(r.warnings, Found(Cardinality(unaligned),
                                       " programs with non-standard time slots"))
               /\ long = {} => (r.is_valid /\ r.errors = <<>>)

\* C13: validate_business_rules returns a record that reports every program
\* whose duration (end - start, or 24:00 - start + end when end < start)
\* exceeds 24 hours: an error about 24 hours is appended, the program is in
\* suspicious_patterns and is_valid is false.
C13_LongProgramsError ==
    AfterBusiness =>
        /\ ~result.raised
        /\ LET r == result.value
               long == {i \in DOMAIN programs : LongerThanADay(programs[i])}
           IN  long # {} =>
                  /\ ~r.is_valid
                  /\ Mentions(r.errors, Found(Cardinality(long),
                                   " programs longer than 24 hours"))
                  /\ \A i \in long :
                        \E x \in Range(r.suspicious_patterns) :
                            /\ DOMAIN x = {"program_name", "start_time",
                                           "end_time", "duration_minutes"}
                            /\ x.program_name = programs[i].program_name
                            /\ x.start_time = programs[i].start_time
                            /\ x.end_time = programs[i].end_time

DuplicateEntriesFor(n) ==
    {k \in DOMAIN result.value.duplicate_names :
        result.value.duplicate_names[k].program_name = n}

\* C12: duplicate_names holds exactly one entry for each program name carried
\* by more than one program row, its count is the number of rows carrying
\* the name, there is no entry for a name carried by one row, and a
\* non-empty list makes is_valid false.
C12_DuplicateNames ==
    AfterQuality =>
        LET r == result.value
        IN  /\ \A n \in ProgramNames :
                  IF Cardinality(ProgramRowsNamed(n)) > 1
                  THEN /\ Cardinality(DuplicateEntriesFor(n)) = 1
                       /\ \A k \in DuplicateEntriesFor(n) :
                             /\ r.duplicate_names[k].count =
                                    Cardinality(ProgramRowsNamed(n))
                             /\ r.duplicate_names[k].count >= 2
                  ELSE DuplicateEntriesFor(n) = {}
            /\ \A d \in Range(r.duplicate_names) :
                  d.program_name \in ProgramNames
            /\ r.duplicate_names # <<>> => ~r.is_valid

\* two rows named "a": one entry with count 2
C12_Witness ==
    /\ AfterQuality
    /\ Len(programs) = 2
    /\ programs[1].program_name = Val(<<"a">>)
    /\ programs[2].program_name = Val(<<"a">>)
    /\ result.value.duplicate_names =
           << [program_name |-> Val(<<"a">>), count |-> 2] >>
    /\ ~result.value.is_valid

\* C14: no call of the five checks or of run_comprehensive_validation changes
\* programs or program_intervals: after any sequence of calls the two tables
\* hold what they held before, corrupted rows included.
C14_ReadOnly ==
    [][programs' = programs /\ program_intervals' = program_intervals]_vars

\* a comprehensive run over a dataset with an orphaned interval row and a
\* program that wraps: both rows are still there
C14_Witness ==
    /\ AfterRun
    /\ Len(programs) = 1 /\ Len(program_intervals) = 1
    /\ programs[1].program_name = Val(<<"a">>)
    /\ Overnight(programs[1])
    /\ program_intervals[1].program_name = Val(<<"b">>)

AfterReport == result.op = "format_validation_report"

\* the titles of the five sections, in the order the report is to keep
ReportTitles == <<"REFERENTIAL INTEGRITY:", "TIME CONSTRAINTS:",
                  "INTERVAL CALCULATIONS:", "DATA QUALITY:",
                  "BUSINESS RULES:">>
ReportKeys == <<"referential_integrity", "time_constraints",
                "interval_calculations", "data_quality", "business_rules">>

LinesEqual(lines, text) == {i \in DOMAIN lines : lines[i] = text}

\* the lines of the report that follow the k-th title, up to the blank line
\* that closes the section
SectionBody(lines, k) ==
    LET t == CHOOSE i \in DOMAIN lines : lines[i] = ReportTitles[k]
        e == CHOOSE i \in (t + 1)..Len(lines) :
                 /\ lines[i] = ""
                 /\ \A m \in (t + 1)..(i - 1) : lines[m] # ""
    IN  SubSeq(lines, t + 1, e - 1)

InputCheck(k) == DictAt(validation_results, ReportKeys[k])

\* C15: the report holds the line "Overall Status: PASS" when overall_valid
\* is true and "Overall Status: FAIL" otherwise, and the section of each
\* check shows "Status: PASS" exactly when the check's is_valid is true and
\* "Status: FAIL" otherwise.
C15_StatusLines ==
    AfterReport =>
        LET lines == result.value
            overall_valid == DictAt(validation_results, "overall_valid")
        IN  /\ (LinesEqual(lines, "Overall Status: PASS") # {}) <=> overall_valid
            /\ (LinesEqual(lines, "Overall Status: FAIL") # {}) <=> ~overall_valid
            /\ \A k \in DOMAIN ReportTitles :
                  /\ Cardinality(LinesEqual(lines, ReportTitles[k])) = 1
                  /\ LET body == SectionBody(lines, k)
                     IN  /\ body # <<>>
                         /\ body[1] = (IF InputCheck(k).is_valid
                                       THEN "  Status: PASS"
                                       ELSE "  Status: FAIL")
                         /\ \A i \in 2..Len(body) :
                               body[i] \notin {"  Status: PASS",
                                               "  Status: FAIL"}

\* an overall FAIL with a failing first check and a passing last one
C15_Witness ==
    /\ AfterReport
    /\ ~DictAt(validation_results, "overall_valid")
    /\ ~InputCheck(1).is_valid /\ InputCheck(5).is_valid
    /\ SectionBody(result.value, 1)[1] = "  Status: FAIL"
    /\ SectionBody(result.value, 5)[1] = "  Status: PASS"
    /\ LinesEqual(result.value, "Overall Status: FAIL") # {}

TitleLine(lines, k) == CHOOSE i \in DOMAIN lines : lines[i] = ReportTitles[k]

\* a list of messages as the report is to show it: nothing for an empty
\* list, else the heading and one line per message, in list order
Listed(heading, messages) ==
    IF messages = <<>> THEN <<>>
    ELSE <<heading>> \o [i \in DOMAIN messages |-> "    - " \o messages[i]]

ListedFor(k) ==
    Listed("  Errors:", InputCheck(k).errors)
    \o Listed("  Warnings:",
              IF "warnings" \in DOMAIN InputCheck(k)
              THEN InputCheck(k).warnings ELSE <<>>)

\* C16: the sections come in the order referential integrity, time
\* constraints, interval calculations, data quality, business rules whatever
\* the order of the keys of the input, and the section of a check lists,
\* after its status, every string of the check's errors and then of its
\* warnings verbatim, once each, in list order, and nothing else.
C16_SectionOrder ==
    AfterReport =>
        LET lines == result.value
        IN  /\ \A k \in DOMAIN ReportTitles :
                  /\ Cardinality(LinesEqual(lines, ReportTitles[k])) = 1
                  /\ Tail(SectionBody(lines, k)) = ListedFor(k)
            /\ \A k \in 1..(Len(ReportTitles) - 1) :
                  TitleLine(lines, k) + Len(SectionBody(lines, k)) + 2
                      = TitleLine(lines, k + 1)
            /\ TitleLine(lines, 1) = 9
            /\ Len(lines) = TitleLine(lines, 5) + Len(SectionBody(lines, 5)) + 2

\* the keys in reverse order, two errors in the first check and two warnings
\* in the last
C16_Witness ==
    /\ AfterReport
    /\ validation_results[3][1] = "business_rules"
    /\ validation_results[7][1] = "referential_integrity"
    /\ Len(InputCheck(1).errors) = 2
    /\ Len(InputCheck(5).warnings) = 2
    /\ SectionBody(result.value, 1) =
           <<"  Status: FAIL", "  Errors:",
             "    - error 1 of referential_integrity",
             "    - error 2 of referential_integrity">>
    /\ TitleLine(result.value, 1) < TitleLine(result.value, 5)

\* the statements a call of op is to issue when none fails
StatementsOf(op) ==
    CASE op = "validate_referential_integrity" -> ReferentialStatements
      [] op = "validate_time_constraints" -> TimeStatements
      [] op = "validate_interval_calculations" -> CalculationStatements
      [] op = "validate_data_quality" -> QualityStatements
      [] op = "validate_business_rules" -> BusinessStatements
      [] op = "run_comprehensive_validation" -> ComprehensiveStatements
      [] OTHER -> <<>>

\* the executes of a call that fail if they are reached
FailingExecutes(op) ==
    {k \in DOMAIN StatementsOf(op) :
        fault = k \/ Rejected(StatementsOf(op)[k])}

Occurrences(s, x) == Cardinality({i \in DOMAIN s : s[i] = x})

\* C17: a call in which an execute fails raises to the caller and returns
\* no record or summary; the statements issued are those up to the failed
\* one, which is issued once and is the last; a call in which no execute
\* fails issues all its statements and returns.
C17_FailurePropagates ==
    StatementsOf(result.op) # <<>> =>
        LET stmts == StatementsOf(result.op)
            failing == FailingExecutes(result.op)
        IN  IF failing = {}
            THEN ~result.raised /\ result.issued = stmts
            ELSE LET k == CHOOSE n \in failing : \A m \in failing : n <= m
                 IN  /\ result.raised
                     /\ result.value \in {"OperationalError", "ProgrammingError"}
                     /\ Len(result.issued) = k
                     /\ \A i \in 1..k : result.issued[i] = stmts[i]
                     /\ Occurrences(result.issued, stmts[k]) = 1

\* the connection fails under the fourth execute of a comprehensive run,
\* the second one of validate_time_constraints
C17_Witness ==
    /\ AfterRun
    /\ fault = 4
    /\ result.raised
    /\ result.value = "OperationalError"
    /\ result.issued = <<"orphaned_intervals", "missing_intervals",
                         "invalid_times", "overlapping_programs">>

NullTimed(p) == IsNull(p.start_time) \/ IsNull(p.end_time)

FiveChecks == {"validate_referential_integrity", "validate_time_constraints",
               "validate_interval_calculations", "validate_data_quality",
               "validate_business_rules"}

\* C18: on a dataset with a program whose start_time or end_time is null,
\* none of the five checks raises; validate_time_constraints lists the
\* program in invalid_times with is_valid false, and the program is in no
\* overlapping pair, not in negative_durations, not in zero_duration, not in
\* incorrect_calculations and not reported as longer than 24 hours; its
\* missing time does not count as a minute off the quarter hour.
C18_NullTimesAreFindings ==
    \A i \in DOMAIN programs :
        NullTimed(programs[i]) =>
            /\ result.op \in FiveChecks => ~result.raised
            /\ AfterTime =>
                  /\ TimesOf(programs[i]) \in Range(result.value.invalid_times)
                  /\ ~result.value.is_valid
                  /\ \A j \in DOMAIN programs :
                        j # i => ~ReportedPair(programs[i], programs[j])
                  /\ ~InNegativeDurations(programs[i])
            /\ AfterQuality =>
                  TimesOf(programs[i]) \notin Range(result.value.zero_duration)
            /\ AfterCalc =>
                  \A c \in Range(result.value.incorrect_calculations) :
                      <<c.start_time, c.end_time>> #
                          <<programs[i].start_time, programs[i].end_time>>
            /\ AfterBusiness =>
                  /\ \A x \in Range(result.value.suspicious_patterns) :
                        x \in Range(SuspiciousNamesQuery(programs))
                  /\ LET unaligned == {j \in DOMAIN programs :
                                      \/ OffQuarterHour(programs[j].start_time)
                                      \/ OffQuarterHour(programs[j].end_time)}
                     IN  unaligned = {} =>
                             ~\E n \in 1..Len(programs) :
                                 Mentions(result.value.warnings, Found(n,
                                     " programs with non-standard time slots"))

AfterTimeFormat == result.op = "_validate_time_format"

\* the fields of time_str, and whether a field is two digits
TimeFields == Split(Get(time_str), ":")
TwoDigitField(f) == Len(f) = 2 /\ IsDigit(f[1]) /\ IsDigit(f[2])
ZeroField(f) == f = <<"0", "0">>

\* time_str reads 24:MM or 24:MM:SS
Hour24 ==
    /\ ~IsNull(time_str)
    /\ Len(TimeFields) \in {2, 3}
    /\ TimeFields[1] = <<"2", "4">>
    /\ \A k \in 2..Len(TimeFields) : TwoDigitField(TimeFields[k])

\* C19: for a time string with hour 24, _validate_time_format returns no
\* error when the minute field and the second field, if there is one, are
\* zero, and at least one error when either is not.
C19_Hour24OnlyMidnight ==
    (AfterTimeFormat /\ Hour24) =>
        (result.value = <<>> <=>
            \A k \in 2..Len(TimeFields) : ZeroField(TimeFields[k]))

\* the number of 15-minute intervals of a program from start to end: the
\* least n with 15 n minutes covering its duration, the duration running
\* past midnight when end is before start
IntervalsOf(p) ==
    LET d == IF Get(p.end_time) < Get(p.start_time)
             THEN 24 * 60 - Get(p.start_time) + Get(p.end_time)
             ELSE Get(p.end_time) - Get(p.start_time)
    IN  CHOOSE n \in 0..96 : 15 * n >= d /\ 15 * (n - 1) < d

\* C20: after any sequence of inserts, time updates, renames and deletes of
\* programs with distinct names, program_intervals holds exactly one row for
\* each program, carrying the count of 15-minute intervals of the program's
\* current times, and no row for a name that no program carries (a deleted
\* program, a name a program was renamed away from).
C20_IntervalsFollowPrograms ==
    /\ \A i \in DOMAIN programs :
          /\ Cardinality(IntervalRowsNamed(programs[i].program_name)) = 1
          /\ \A j \in IntervalRowsNamed(programs[i].program_name) :
                program_intervals[j].interval_count = Val(IntervalsOf(programs[i]))
    /\ \A j \in DOMAIN program_intervals :
          \E i \in DOMAIN programs :
              programs[i].program_name = program_intervals[j].program_name
    /\ Len(program_intervals) = Len(programs)

\* the first program inserted has been deleted; of the two that are left
\* one runs past midnight and one for ten minutes; the referential check
\* that follows finds nothing
C20_Witness ==
    /\ AfterRef /\ result.value.is_valid
    /\ Len(programs) = 2
    /\ programs[1].id = Val(2) /\ programs[2].id = Val(3)
    /\ programs[1].program_name = Val(<<"c">>)
    /\ programs[1].start_time = Val(1380) /\ programs[1].end_time = Val(60)
    /\ program_intervals[1] =
           [program_name |-> Val(<<"c">>), interval_count |-> Val(8)]
    /\ programs[2].start_time = Val(540) /\ programs[2].end_time = Val(550)
    /\ program_intervals[2].interval_count = Val(1)
\* C21: when the step "the database is clean" has run, programs and
\* program_intervals hold no row: nothing is left over from the scenarios
\* before it or from loaded data.
C21_CleanAfterStep ==
    [][DatabaseIsClean => programs' = <<>> /\ program_intervals' = <<>>]_vars

\* C22: run_comprehensive_validation returns overall_valid true exactly when
\* summary.total_errors is 0; a check with is_valid false has at least one
\* string in its errors, and the errors of a check that stays valid are not
\* counted.
C22_ValidIffNoErrors ==
    AfterRun =>
        /\ ~result.raised
        /\ LET v == result.value
           IN  /\ v.overall_valid <=> v.summary.total_errors = 0
               /\ \A c \in Range(CheckNames) :
                      ~v[c].is_valid => v[c].errors # <<>>
               /\ (\A c \in Range(CheckNames) : v[c].is_valid)
                      => v.summary.total_errors = 0

\* C23: the duration the business-rules check computes for a program with
\* times of day is at most 1440 minutes, so the rule on 24 hours selects no
\* program and validate_business_rules returns is_valid true with empty
\* errors on every dataset.
C23_NeverLongerThanADay ==
    /\ \A i \in DOMAIN programs :
          HasTimes(programs[i]) =>
              Get(duration_minutes(programs[i])) <= DayMinutes
    /\ AfterBusiness =>
          /\ ~result.raised
          /\ result.value.is_valid
          /\ result.value.errors = <<>>

AfterLoad == result.op = "load_csv_to_programs"

\* the entries of a list of records that are tagged with a row number
TaggedWith(records, row_num) ==
    {i \in DOMAIN records : records[i].row = row_num}

\* the k-th data row passes the validation
PassesValidation(row) ==
    /\ \A f \in {"program_name", "start_time", "end_time"} : ~IsNull(row[f])
    /\ validate_program_data(Strip(Get(row.program_name)),
                             Strip(Get(row.start_time)),
                             Strip(Get(row.end_time))) = <<>>

C25_ValidateOnly ==
    /\ [](AfterLoad /\ args.validate_only =>
            LET rows == args.csv_rows
                ok == result.value.successful_records
                failed == result.value.failed_records
            IN  /\ result.issued = <<>>
                /\ \A k \in DOMAIN rows :
                      /\ PassesValidation(rows[k]) <=>
                             TaggedWith(ok, k + 1) # {}
                      /\ ~PassesValidation(rows[k]) <=>
                             TaggedWith(failed, k + 1) # {}
                /\ \A i \in DOMAIN ok : ok[i].row - 1 \in DOMAIN rows
                /\ \A j \in DOMAIN failed : failed[j].row - 1 \in DOMAIN rows)
    /\ [][args.validate_only =>
              programs' = programs /\ program_intervals' = program_intervals]_vars

\* a validation-only pass over a row that loads and a row that does not,
\* on a connection whose first execute would raise
C25_Witness ==
    /\ AfterLoad
    /\ args.validate_only /\ fault = 1
    /\ Len(args.csv_rows) = 2
    /\ Len(result.value.successful_records) = 1
    /\ result.value.successful_records[1].row = 2
    /\ Len(result.value.failed_records) = 1
    /\ result.value.failed_records[1].row = 3
    /\ programs = <<>>

\* what the session fixture has done, by position in session.trace
IsAttempt(i) == session.trace[i][1] = "attempt"
FailedAttempt(i) == IsAttempt(i) /\ session.trace[i][3] # "ok"
GoodAttempt(i) == IsAttempt(i) /\ session.trace[i][3] = "ok"
Did(i, what) == session.trace[i][1] = what

SessionSafe ==
    LET trace == session.trace
        n == Len(trace)
    IN  \* at most 10 attempts
        /\ Cardinality({i \in 1..n : IsAttempt(i)}) <= 10
        \* the connection yielded is that of the first attempt that
        \* succeeds, and no attempt follows a successful one
        /\ \A i \in 1..n :
              Did(i, "yield") =>
                  /\ i > 1 /\ GoodAttempt(i - 1)
                  /\ trace[i][2] = trace[i - 1][2]
                  /\ \A j \in 1..(i - 2) : ~GoodAttempt(j)
        /\ \A i \in 1..n : GoodAttempt(i) => \A j \in (i + 1)..n : ~IsAttempt(j)
        \* a wait is 2 seconds long and stands between a failed attempt
        \* and the next one, and only there
        /\ \A i \in 1..n :
              Did(i, "sleep") =>
                  /\ trace[i][2] = 2
                  /\ i > 1 /\ FailedAttempt(i - 1) /\ trace[i - 1][2] < 10
                  /\ i < n => IsAttempt(i + 1)
        /\ \A i \in 2..n : IsAttempt(i) => Did(i - 1, "sleep")
        \* ten failures in a row end in an exception and never in a yield
        /\ Cardinality({i \in 1..n : FailedAttempt(i)}) = 10
              => session.pc = "raised"
        /\ session.pc = "raised" =>
              /\ Cardinality({i \in 1..n : FailedAttempt(i)}) = 10
              /\ \A i \in 1..n : ~Did(i, "yield")
        \* what is closed is the connection that was yielded
        /\ \A i \in 1..n :
              Did(i, "close") =>
                  i > 1 /\ Did(i - 1, "yield") /\ trace[i][2] = trace[i - 1][2]

\* C26: db_connection makes at most 10 attempts, yields the connection of
\* the first attempt that succeeds and attempts no more, waits 2 seconds
\* between a failed attempt and the next one and nowhere else, raises
\* after 10 failures in a row instead of yielding, and closes the yielded
\* connection when the session is torn down.
C26_ConnectionRetries ==
    /\ []SessionSafe
    /\ (session.pc = "yielded") ~> (session.pc = "closed")

\* two failed attempts, one of each kind, then the third succeeds: two
\* waits, the third connection yielded and closed
C26_Witness ==
    /\ session.pc = "closed"
    /\ session.trace = << <<"attempt", 1, "connect_raises">>, <<"sleep", 2>>,
                          <<"attempt", 2, "select_raises">>, <<"sleep", 2>>,
                          <<"attempt", 3, "ok">>, <<"yield", 3>>,
                          <<"close", 3>> >>

AfterUpdate == result.op = "update_performance_dashboard"

\* s is what t ends with
IsSuffix(s, t) ==
    Len(s) <= Len(t) /\ s = SubSeq(t, Len(t) - Len(s) + 1, Len(t))

\* C27: after a run of the dashboard update with --max-history N the saved
\* history has at most N entries, the most recent runs in the order they
\* were appended, the current run last; after any number of runs and for
\* every N >= 0.
C27_HistoryBounded ==
    /\ [](AfterUpdate => Len(load_history(history)) <= args.max_history)
    /\ [][LET before == Append(load_history(history), args'.run_number)
              after == load_history(history')
          IN  /\ IsSuffix(after, before)
              /\ \/ after = before
                 \/ Len(after) = args'.max_history]_vars

AfterBulk == result.op = "bulk_insert_programs"

\* the names generate_program_batch produces during the bulk insert of args
GeneratedNames ==
    LET rows == Flatten(Batches(args.total_records, args.batch_size,
                                args.draws))
    IN  {Val(rows[k].program_name) : k \in DOMAIN rows}

GeneratedRows(P) == {i \in DOMAIN P : P[i].program_name \in GeneratedNames}

\* C28: after bulk_insert_programs and then cleanup_test_data no program
\* with a name that generate_program_batch produced is left in programs,
\* and the count returned is the number of generated rows that were there.
C28_CleanupRemovesGenerated ==
    [][CleanupTestData /\ GeneratedRows(programs) # {} =>
          /\ GeneratedRows(programs') = {}
          /\ result'.value = Cardinality(GeneratedRows(programs))]_vars

\* the least n with n * b >= a
CeilDiv(a, b) == CHOOSE n \in 0..a : n * b >= a /\ (n - 1) * b < a

RECURSIVE SumOfLengths(_, _)
SumOfLengths(batches, k) ==
    IF k = 0 THEN 0 ELSE SumOfLengths(batches, k - 1) + Len(batches[k])

\* C29: for total_records >= 1 and batch_size >= 1 bulk_insert_programs
\* generates ceil(total_records / batch_size) batches whose sizes add up to
\* total_records; the index suffixes of the names are pairwise distinct
\* over all batches and cover 0..total_records-1, and so the names are
\* pairwise distinct.
C29_BatchesCoverRecords ==
    AfterBulk =>
        LET batches == result.value
            rows == Flatten(batches)
        IN  /\ Len(batches) = CeilDiv(args.total_records, args.batch_size)
            /\ SumOfLengths(batches, Len(batches)) = args.total_records
            /\ \A n \in DOMAIN batches : Len(batches[n]) <= args.batch_size
            /\ {rows[k].index : k \in DOMAIN rows} = 0..(args.total_records - 1)
            /\ \A k, m \in DOMAIN rows :
                  k # m =>
                      /\ rows[k].index # rows[m].index
                      /\ rows[k].program_name # rows[m].program_name
            /\ \A k \in DOMAIN rows :
                  IsSuffix(<<")", "-">> \o DigitChars(rows[k].index),
                           rows[k].program_name)

\* three records in batches of two, all three rows with the same show,
\* channel and day: a batch of two and a batch of one, and names that the
\* index alone tells apart
C29_Witness ==
    /\ AfterBulk
    /\ args.total_records = 3 /\ args.batch_size = 2
    /\ args.draws[1] = args.draws[2] /\ args.draws[2] = args.draws[3]
    /\ Len(result.value) = 2
    /\ Len(result.value[1]) = 2 /\ Len(result.value[2]) = 1
    /\ result.value[2][1].index = 2

AfterSlot == result.op = "generate_realistic_time_slot"

QuarterHours == {0, 15, 30, 45}

\* C30: a time slot of generate_realistic_time_slot has start and end
\* minutes in {0, 15, 30, 45} and start different from end, and when it
\* crosses midnight (end < start) its start is after 12:00 and its end
\* before 12:00; so the validator's queries for zero duration, negative
\* duration and non-standard time slots do not select a program with such
\* a slot.
C30_SlotsAreStandard ==
    AfterSlot =>
        LET start == Get(TimeOfText(result.value[1]))
            end == Get(TimeOfText(result.value[2]))
            generated == MkPrograms(<< <<Val(<<"g">>), Val(start), Val(end)>> >>)
        IN  /\ start % 60 \in QuarterHours
            /\ end % 60 \in QuarterHours
            /\ start # end
            /\ end < start => (start > Noon /\ end < Noon)
            /\ ZeroDurationQuery(generated) = <<>>
            /\ NegativeDurationsQuery(generated) = <<>>
            /\ NonStandardTimesQuery(generated) = <<>>

\* a four-hour sports event from 22:45: it ends at 02:45
C30_Witness ==
    /\ AfterSlot
    /\ args.category = "Sports"
    /\ result.value = << <<"2", "2", ":", "4", "5">>,
                         <<"0", "2", ":", "4", "5">> >>

=============================================================================
